---- MODULE Spec2Model ----
(***************************************************************************)
(* A model of the DeepLX translation relay: the POST /translate handler,   *)
(* query(), retryWithBackoff(), isRetryableError(), createErrorResponse(), *)
(* the two-level translation cache and the token-bucket rate limiter.      *)
(*                                                                         *)
(* Time is Date.now() in milliseconds, counted from the start of the       *)
(* process.  The clock only takes values that are multiples of 125 ms, the *)
(* time in which one proxy token refills, so token counts stay integers.   *)
(***************************************************************************)
EXTENDS Integers, Sequences, FiniteSets, TLC

(***************************************************************************)
(* Bounds of the model.                                                    *)
(***************************************************************************)
\* the largest maxRetries a retryWithBackoff run is started with
MaxRetriesBound == 3
\* the length of the longest scripted sequence of operation outcomes
MaxScript == 4
\* how many /translate requests (or direct query calls) one behaviour holds
MaxRequests == 1
\* how many proxy URLs PROXY_URLS may list
MaxProxies == 1
\* how many times the clock may be advanced between requests
MaxTicks == 1
\* how many execute calls one behaviour of the breakers holds
MaxExecutes == 8
\* how many operations one breaker may have in progress at once
MaxInFlight == 2
\* how many times the clock may be advanced while the breakers run
MaxBreakerTicks == 2
MaxBurst == 18
MaxClientBurst == 2
MaxBucketTicks == 2
MaxCacheTicks == 3
MaxLoopTicks == 2
MaxSuspended == 2
MaxChecks == 4

(***************************************************************************)
(* JavaScript values.  Absent is undefined (a missing property); NaN is    *)
(* the number NaN.  Both are kept apart from every number the model uses,  *)
(* all of which are >= 0.                                                  *)
(***************************************************************************)
Absent == 0 - 1
NaN == 0 - 2

\* JavaScript truthiness of a number-or-undefined value
Truthy(v) == v # Absent /\ v # NaN /\ v # 0

jsAdd(a, b) == IF a = NaN \/ b = NaN THEN NaN ELSE a + b
jsMul(a, b) == IF a = NaN \/ b = NaN THEN NaN ELSE a * b
\* Math.min: NaN if either argument is NaN
jsMin(a, b) == IF a = NaN \/ b = NaN THEN NaN ELSE IF a < b THEN a ELSE b
\* a < b: false if either side is NaN
jsLt(a, b) == a # NaN /\ b # NaN /\ a < b

(***************************************************************************)
(* Language tags.  A tag is a string; toUpperCase and toLowerCase are      *)
(* given by their tables over the tags the model uses.  "x40000" stands for *)
(* a tag of 40000 characters (query() accepts any string).                  *)
(***************************************************************************)
toUpperCase(s) ==
  CASE s = "auto" -> "AUTO" [] s = "Auto" -> "AUTO" [] s = "AUTO" -> "AUTO"
    [] s = "en" -> "EN" [] s = "EN" -> "EN"
    [] s = "zh" -> "ZH" [] s = "ZH" -> "ZH" [] s = "Zh" -> "ZH"
    [] s = "dutch" -> "DUTCH" [] s = "NL" -> "NL"
    [] s = "chinese" -> "CHINESE"
    [] s = "x40000" -> "X40000" [] s = "X40000" -> "X40000"
    [] s = "e!" -> "E!"
    [] OTHER -> s

toLowerCase(s) ==
  CASE s = "auto" -> "auto" [] s = "Auto" -> "auto" [] s = "AUTO" -> "auto"
    [] s = "en" -> "en" [] s = "EN" -> "en"
    [] s = "zh" -> "zh" [] s = "ZH" -> "zh" [] s = "Zh" -> "zh"
    [] s = "NL" -> "nl"
    [] s = "X40000" -> "x40000"
    [] OTHER -> s

\* String.length of a tag
tagLength(s) ==
  CASE s = "" -> 0
    [] s \in {"en", "EN", "zh", "ZH", "Zh", "NL", "nl", "e!", "E!"} -> 2
    [] s \in {"auto", "Auto", "AUTO"} -> 4
    [] s \in {"dutch", "DUTCH"} -> 5
    [] s \in {"chinese", "CHINESE"} -> 7
    [] s \in {"x40000", "X40000"} -> 40000
    [] OTHER -> 2

\* /^[a-z0-9-]+$/ on a lower-cased tag
tagCharsValid(s) == s \notin {"", "e!"}

(***************************************************************************)
(* Errors.  An error object is the record of the properties the code       *)
(* reads: name, whether its message includes "fetch", status, code, and    *)
(* seq, the invocation of the operation that raised it (its identity).     *)
(* A thrown string, a plain object or null has name "" and no status/code. *)
(***************************************************************************)
Err(name, fetchMsg, status, code, seq) ==
  [name |-> name, fetchMsg |-> fetchMsg, status |-> status, code |-> code, seq |-> seq]

\* undefined: the value retryWithBackoff throws when the loop body never ran
Undefined == Err("undefined", FALSE, Absent, Absent, 0)
NoError == Err("none", FALSE, Absent, Absent, 0)

\* the mutant of isRetryableError: status 408 is left out of the retryable list
isRetryableError_no408(error) ==
  IF error.name = "AbortError" \/ (error.name = "TypeError" /\ error.fetchMsg)
  THEN TRUE
  ELSE IF Truthy(error.status)
       THEN error.status \in {429, 500, 502, 503, 504}
       ELSE IF Truthy(error.code)
            THEN error.code \in {429, 500, 502, 503, 504}
            ELSE FALSE

isRetryableError(error) ==
  IF error.name = "AbortError" \/ (error.name = "TypeError" /\ error.fetchMsg)
  THEN TRUE
  ELSE IF Truthy(error.status)
       THEN error.status \in {408, 429, 500, 502, 503, 504}
       ELSE IF Truthy(error.code)
            THEN error.code \in {429, 500, 502, 503, 504}
            ELSE FALSE

(***************************************************************************)
(* Responses.                                                              *)
(***************************************************************************)
Null == "null"

\* the values Math.floor(Math.random() * 10000000000) is drawn from
RandomIds == {77}

\* the mutant of createStandardResponse: the id is passed through as it is
createStandardResponse_noIdFallback(code, data, id, source_lang, target_lang, rnd) ==
  IF code # 200
  THEN [code |-> code, data |-> Null, id |-> id, source_lang |-> Null, target_lang |-> Null]
  ELSE [code |-> code, data |-> data, id |-> id,
        source_lang |-> toUpperCase(IF source_lang \in {"", Null} THEN "AUTO" ELSE source_lang),
        target_lang |-> toUpperCase(IF target_lang \in {"", Null} THEN "EN" ELSE target_lang)]

\* the mutant of createStandardResponse: a failure keeps the languages it was given
createStandardResponse_keepsLangs(code, data, id, source_lang, target_lang, rnd) ==
  LET responseId == IF Truthy(id) THEN id ELSE rnd
  IN IF code # 200
     THEN [code |-> code, data |-> Null, id |-> responseId,
           source_lang |-> source_lang, target_lang |-> target_lang]
     ELSE [code |-> code, data |-> data, id |-> responseId,
           source_lang |-> toUpperCase(IF source_lang \in {"", Null} THEN "AUTO" ELSE source_lang),
           target_lang |-> toUpperCase(IF target_lang \in {"", Null} THEN "EN" ELSE target_lang)]

createStandardResponse(code, data, id, source_lang, target_lang, rnd) ==
  LET responseId == IF Truthy(id) THEN id ELSE rnd
  IN IF code # 200
     THEN [code |-> code, data |-> Null, id |-> responseId,
           source_lang |-> Null, target_lang |-> Null]
     ELSE [code |-> code, data |-> data, id |-> responseId,
           source_lang |-> toUpperCase(IF source_lang \in {"", Null} THEN "AUTO" ELSE source_lang),
           target_lang |-> toUpperCase(IF target_lang \in {"", Null} THEN "EN" ELSE target_lang)]

isValidHttpStatusCode(code) == code # NaN /\ code # Absent /\ code >= 200 /\ code <= 599

sanitizeStatusCode(code) ==
  IF isValidHttpStatusCode(code) THEN code ELSE 500

\* the httpStatus of createErrorResponse(error, context)
createErrorResponse(error) ==
  IF Truthy(error.status) THEN sanitizeStatusCode(error.status)
  ELSE IF Truthy(error.code) THEN sanitizeStatusCode(error.code)
  ELSE 500

(***************************************************************************)
(* State.                                                                  *)
(***************************************************************************)
VARIABLES
  now,            \* Date.now(), ms
  ticks,          \* how often the clock was advanced between requests
  requests,       \* how many requests were started
  PROXY_URLS,     \* env.PROXY_URLS, parsed: the sequence of proxy URLs
  memoryCache,    \* cache.ts memoryCache: key -> CacheEntry
  cacheKV,        \* env.CACHE_KV
  rateLimitCache, \* rateLimit.ts rateLimitCache: key -> bucket
  rateLimitKV,    \* env.RATE_LIMIT_KV
  kind,           \* what runs: "handler", "query", "abstract", "classify"
  pc,             \* the position of the running request
  params,         \* the RequestParams of the running request
  cacheKey,       \* the handler's cacheKey
  maxRetries,     \* retryWithBackoff: options.maxRetries
  attempt,        \* retryWithBackoff: the loop variable
  lastError,      \* retryWithBackoff: lastError
  curErr,         \* the error the operation threw, until it is caught
  thrown,         \* the error retryWithBackoff threw
  endpoint,       \* query: the endpoint of the current attempt
  result,         \* what the operation returned / the response of the request
  script,         \* the outcomes the abstract operation produces, call by call
  opCalls,        \* how often the operation was invoked
  delays,         \* the backoff delays taken, in order
  selectCalls,    \* how often selectProxy ran for this request
  admitCalls,     \* how often checkCombinedRateLimit ran for this request
  tokensTaken,    \* how many bucket checks (either dimension) admitted this request
  transportCalls, \* how often fetch was called for this request
  denials,        \* how many attempts of this request were denied admission
  cacheFresh,     \* the unexpired entry either tier held at the lookup (or NoEntry)
  cacheReadable,  \* the unexpired entry the lookup could read (or NoEntry)
  clientEmpty,    \* an attempt met a client bucket holding less than one token
  upstream,       \* the response of the last completed transport call
  clsErr,         \* the argument of isRetryableError under test
  clsOut,         \* its classification
  circuitBreakers, \* circuitBreaker.ts circuitBreakers: url -> CircuitBreaker state
  inflight,       \* per url: the operations execute has invoked and that have not settled
  execs,          \* how many execute calls were made
  lastEvent,      \* the last thing a breaker did, with its state before and after
  streak,         \* per url: failures recorded since the last recorded success
  hoSucc,         \* per url: successes recorded since the breaker last became HALF_OPEN
  kvUp,           \* RATE_LIMIT_KV is reachable (if not, every get and put rejects)
  lastCheck,      \* per bucket key: what the last check of that bucket met and decided
  lastCacheOp,    \* the last call of getCachedTranslation or setCachedTranslation
  built,          \* buildRequestBody under test: its inputs and what it produced
  loop            \* the event loop: microtasks, tasks waiting, suspended and allowed checks

vars == <<now, ticks, requests, PROXY_URLS, memoryCache, cacheKV, rateLimitCache,
          rateLimitKV, kind, pc, params, cacheKey, maxRetries, attempt, lastError,
          curErr, thrown, endpoint, result, script, opCalls, delays, selectCalls,
          admitCalls, tokensTaken, transportCalls, denials, cacheFresh, cacheReadable,
          clientEmpty, upstream, clsErr, clsOut, circuitBreakers, inflight, execs,
          lastEvent, streak, hoSucc, kvUp, lastCheck, lastCacheOp, built, loop>>

storeVars == <<memoryCache, cacheKV, rateLimitCache, rateLimitKV>>
retryVars == <<maxRetries, attempt, lastError, curErr, thrown, opCalls, delays>>
ghostVars == <<selectCalls, admitCalls, tokensTaken, transportCalls, denials,
               cacheFresh, cacheReadable, clientEmpty, upstream>>
clsVars == <<clsErr, clsOut>>
breakerVars == <<circuitBreakers, inflight, execs, lastEvent, streak, hoSucc>>
\* the state that neither a request, nor retryWithBackoff, nor isRetryableError touches
bucketVars == <<kvUp, lastCheck>>
auxVars == <<breakerVars, bucketVars, lastCacheOp, built, loop>>

(***************************************************************************)
(* Configuration (config.ts).                                              *)
(***************************************************************************)
REQUEST_TIMEOUT == 10000
DEFAULT_RETRY_maxRetries == 3
DEFAULT_RETRY_initialDelay == 1000
DEFAULT_RETRY_backoffFactor == 2
API_URL == "https://www2.deepl.com/jsonrpc"

RECURSIVE Pow(_, _)
Pow(b, n) == IF n <= 0 THEN 1 ELSE b * Pow(b, n - 1)

(***************************************************************************)
(* retryWithBackoff(operation, options).                                   *)
(***************************************************************************)
\* the mutant of loopContinues: one more pass of the loop
loopContinues_inclusive(a, m) == a <= m

\* the loop condition: attempt < maxRetries
loopContinues(a, m) == a < m

\* the mutant of catchNext: every error is retried
catchNext_retryAll(error) == "delay"

\* the catch block: wait and go round again, or rethrow at once
catchNext(error) == IF isRetryableError(error) THEN "delay" ELSE "thrown"

\* initialDelay * Math.pow(backoffFactor, attempt)
backoffDelay(a) == DEFAULT_RETRY_initialDelay * Pow(DEFAULT_RETRY_backoffFactor, a)

NoResult == [code |-> 0, data |-> Null, id |-> 0, source_lang |-> Null, target_lang |-> Null]

\* for (attempt = 0; attempt < maxRetries; attempt++) { try { return await operation()
RetryLoop ==
  /\ pc = "loop"
  /\ IF loopContinues(attempt, maxRetries)
     THEN /\ pc' = "op"
          /\ opCalls' = opCalls + 1
          /\ UNCHANGED thrown
     ELSE \* throw lastError
          /\ pc' = "thrown"
          /\ thrown' = lastError
          /\ UNCHANGED opCalls
  /\ UNCHANGED <<now, ticks, requests, PROXY_URLS, storeVars, kind, params, cacheKey,
                 maxRetries, attempt, lastError, curErr, endpoint, result, script,
                 delays, ghostVars, clsVars, auxVars>>

\* catch (error) { lastError = error; if (isRetryable(error)) ... else throw error }
RetryCatch ==
  /\ pc = "caught"
  /\ lastError' = curErr
  /\ IF catchNext(curErr) = "delay"
     THEN pc' = "delay" /\ UNCHANGED thrown
     ELSE pc' = "thrown" /\ thrown' = curErr
  /\ UNCHANGED <<now, ticks, requests, PROXY_URLS, storeVars, kind, params, cacheKey,
                 maxRetries, attempt, curErr, endpoint, result, script, opCalls,
                 delays, ghostVars, clsVars, auxVars>>

\* await delayRequest(delay / 1000); attempt++
RetryDelay ==
  /\ pc = "delay"
  /\ now' = now + backoffDelay(attempt)
  /\ delays' = Append(delays, backoffDelay(attempt))
  /\ attempt' = attempt + 1
  /\ pc' = "loop"
  /\ UNCHANGED <<ticks, requests, PROXY_URLS, storeVars, kind, params, cacheKey,
                 maxRetries, lastError, curErr, thrown, endpoint, result, script,
                 opCalls, ghostVars, clsVars, auxVars>>

(***************************************************************************)
(* An operation given by a script: its n-th invocation produces script[n], *)
(* and succeeds once the script is used up.                                *)
(***************************************************************************)
Outcomes == {"ok", "status503", "status400", "plain"}

scriptedError(o, n) ==
  CASE o = "status503" -> Err("Error", FALSE, 503, Absent, n)
    [] o = "status400" -> Err("Error", FALSE, 400, Absent, n)
    [] OTHER -> Err("Error", FALSE, Absent, Absent, n)

outcomeAt(s, n) == IF n <= Len(s) THEN s[n] ELSE "ok"

AbstractOp ==
  /\ kind = "abstract"
  /\ pc = "op"
  /\ IF outcomeAt(script, opCalls) = "ok"
     THEN /\ pc' = "returned"
          /\ result' = [NoResult EXCEPT !.code = 200, !.id = opCalls]
          /\ UNCHANGED curErr
     ELSE /\ pc' = "caught"
          /\ curErr' = scriptedError(outcomeAt(script, opCalls), opCalls)
          /\ UNCHANGED result
  /\ UNCHANGED <<now, ticks, requests, PROXY_URLS, storeVars, kind, params, cacheKey,
                 maxRetries, attempt, lastError, thrown, endpoint, script, opCalls,
                 delays, ghostVars, clsVars, auxVars>>

(***************************************************************************)
(* Texts.  A text is a short sequence of ASCII codes followed by pad more  *)
(* letters "a"; only its length, its bytes and its hash are read.          *)
(***************************************************************************)
Text(chars, pad) == [chars |-> chars, pad |-> pad]
EmptyText == Text(<<>>, 0)
TextAa == Text(<<65, 97>>, 0)
\* "BB" and "Aa" have the same 31-hash: their cache keys collide
TextBB == Text(<<66, 66>>, 0)
\* 5001 characters: one more than MAX_TEXT_LENGTH
TextLong == Text(<<65, 97>>, 4999)

textLength(t) == Len(t.chars) + t.pad

MAX_TEXT_LENGTH == 5000
MAX_REQUEST_SIZE == 32768

\* sanitizedText.slice(0, MAX_TEXT_LENGTH)
sliceText(t) ==
  IF textLength(t) > MAX_TEXT_LENGTH
  THEN IF Len(t.chars) >= MAX_TEXT_LENGTH
       THEN Text(SubSeq(t.chars, 1, MAX_TEXT_LENGTH), 0)
       ELSE Text(t.chars, MAX_TEXT_LENGTH - Len(t.chars))
  ELSE t

(***************************************************************************)
(* normalizeLanguageCode and validateLanguageCode.                         *)
(***************************************************************************)
\* languageMap, for the language names among the model's tags
languageMap(n) ==
  CASE n = "chinese" -> "ZH" [] n = "dutch" -> "NL" [] OTHER -> ""

normalizeLanguageCode(langCode) ==
  IF langCode \in {"", Null} \/ toLowerCase(langCode) = "auto"
  THEN "auto"
  ELSE IF languageMap(toLowerCase(langCode)) # ""
       THEN languageMap(toLowerCase(langCode))
       ELSE toUpperCase(toLowerCase(langCode))

\* security.ts: the lower-cased code, or Null if it is no language code
validateLanguageCode(langCode) ==
  LET normalized == toLowerCase(langCode)
  IN IF tagLength(normalized) < 2 \/ tagLength(normalized) > 5 THEN Null
     ELSE IF ~tagCharsValid(normalized) THEN Null
     ELSE normalized

(***************************************************************************)
(* The translation cache (cache.ts).                                       *)
(***************************************************************************)
CACHE_TTL == 3600

\* the UTF-8 bytes of a normalized tag
tagBytes(s) ==
  CASE s = "auto" -> <<97, 117, 116, 111>>
    [] s = "EN" -> <<69, 78>>
    [] s = "ZH" -> <<90, 72>>
    [] s = "NL" -> <<78, 76>>
    [] OTHER -> <<63>>

\* one round of hash = (hash << 5) - hash + char; hash = hash & hash, on the
\* unsigned 32-bit value kept as <<high 16 bits, low 16 bits>>
hashStep(h, c) ==
  LET lo == h[2] * 31 + c
      hi == h[1] * 31 + (lo \div 65536)
  IN <<hi % 65536, lo % 65536>>

RECURSIVE hashBytes(_, _)
hashBytes(h, bytes) ==
  IF bytes = <<>> THEN h ELSE hashBytes(hashStep(h, Head(bytes)), Tail(bytes))

\* Math.abs of the signed 32-bit value
hashAbs(h) ==
  IF h[1] < 32768 THEN h
  ELSE IF h[2] = 0 THEN <<65536 - h[1], 0>> ELSE <<65535 - h[1], 65536 - h[2]>>

RECURSIVE padBytes(_)
padBytes(n) == IF n <= 0 THEN <<>> ELSE <<97>> \o padBytes(n - 1)

\* the mutant of generateCacheKey: the source tag goes into the key as it is
generateCacheKey_rawSource(text, sourceLang, targetLang) ==
  LET normalizedTargetLang == toUpperCase(targetLang)
      content == text.chars \o padBytes(text.pad) \o <<58>> \o tagBytes(sourceLang)
                 \o <<58>> \o tagBytes(normalizedTargetLang)
  IN <<hashAbs(hashBytes(<<0, 0>>, content)), sourceLang, normalizedTargetLang>>

\* cache_<hash in base 36>_<SRC>_<TGT>: the key is given by the hash and the tags
generateCacheKey(text, sourceLang, targetLang) ==
  LET normalizedSourceLang == IF sourceLang = "auto" THEN "auto" ELSE toUpperCase(sourceLang)
      normalizedTargetLang == toUpperCase(targetLang)
      content == text.chars \o padBytes(text.pad) \o <<58>> \o tagBytes(normalizedSourceLang)
                 \o <<58>> \o tagBytes(normalizedTargetLang)
  IN <<hashAbs(hashBytes(<<0, 0>>, content)), normalizedSourceLang, normalizedTargetLang>>

NoEntry == [data |-> Null, timestamp |-> 0, source_lang |-> Null, target_lang |-> Null, id |-> 0]

\* the tags a validated request can carry after normalization
NormalTags == {"auto", "ZH"}
CacheKeys == {generateCacheKey(t, s, u) : t \in {TextAa, TextBB}, s \in NormalTags, u \in NormalTags}

\* a value of CACHE_KV that is not JSON: get(key, "json") throws on it
Malformed == [data |-> "{", timestamp |-> 0, source_lang |-> Null, target_lang |-> Null, id |-> 0]

\* an entry is still returned at the age of exactly CACHE_TTL
isFresh_inclusive(entry, t) == entry # NoEntry /\ t - entry.timestamp <= CACHE_TTL * 1000

isFresh(entry, t) == entry # NoEntry /\ t - entry.timestamp < CACHE_TTL * 1000

\* the mutant of getCachedTranslation: the durable tier is never read
getCachedTranslation_memoryOnly(key, mem, kv, t, kvOk) ==
  IF isFresh(mem[key], t)
  THEN [entry |-> mem[key], mem |-> mem]
  ELSE [entry |-> NoEntry, mem |-> mem]

\* a durable hit is returned but not kept in the memory tier
getCachedTranslation_noBackfill(key, mem, kv, t, kvOk) ==
  IF isFresh(mem[key], t)
  THEN [entry |-> mem[key], mem |-> mem]
  ELSE IF kvOk /\ kv[key] # Malformed /\ isFresh(kv[key], t)
       THEN [entry |-> kv[key], mem |-> mem]
       ELSE [entry |-> NoEntry, mem |-> mem]

\* getCachedTranslation: the entry returned and the memory tier afterwards;
\* kvOk is whether env.CACHE_KV.get answers (it throws otherwise)
getCachedTranslation(key, mem, kv, t, kvOk) ==
  IF isFresh(mem[key], t)
  THEN [entry |-> mem[key], mem |-> mem]
  ELSE IF kvOk /\ kv[key] # Malformed /\ isFresh(kv[key], t)
       THEN [entry |-> kv[key], mem |-> [mem EXCEPT ![key] = kv[key]]]
       ELSE [entry |-> NoEntry, mem |-> mem]

\* the durable write comes first and its failure ends the call
setCachedTranslation_kvFirst(key, entry, mem, kv, kvOk) ==
  [mem |-> IF kvOk THEN [mem EXCEPT ![key] = entry] ELSE mem,
   kv |-> IF kvOk THEN [kv EXCEPT ![key] = entry] ELSE kv]

\* setCachedTranslation: both tiers afterwards; kvOk is whether the put succeeds
setCachedTranslation(key, entry, mem, kv, kvOk) ==
  [mem |-> [mem EXCEPT ![key] = entry],
   kv |-> IF kvOk THEN [kv EXCEPT ![key] = entry] ELSE kv]

(***************************************************************************)
(* The rate limiter (rateLimit.ts, config.ts).                             *)
(***************************************************************************)
PROXY_TOKENS_PER_SECOND == 8
PROXY_MAX_TOKENS == 16
PROXY_REFILL_RATE == PROXY_TOKENS_PER_SECOND
BASE_TOKENS_PER_MINUTE == 480
RL_CACHE_TTL == 5000
CLEANUP_SIZE == 100

\* the proxy URLs a configuration can list, in order
ProxyList == <<"https://p1.example", "https://p2.example", "https://p3.example">>
ProxyPool == {ProxyList[i] : i \in 1..Len(ProxyList)}

clientIP == "203.0.113.7"
clientKey(ip) == <<"rate_limit", ip>>
proxyKey(url) == <<"proxy_rate_limit", url>>
RLKeys == {clientKey(clientIP)} \cup {proxyKey(u) : u \in ProxyPool}

NoBucket == [tokens |-> Absent, lastRefill |-> 0, lastUpdate |-> 0]

\* Number(x) of a number-or-undefined value
toNumber(x) == IF x = Absent THEN NaN ELSE x

calculateDynamicRateLimits(proxyCount) ==
  IF proxyCount = 0
  THEN [TOKENS_PER_MINUTE |-> BASE_TOKENS_PER_MINUTE,
        REFILL_RATE |-> BASE_TOKENS_PER_MINUTE \div 60]
  ELSE [TOKENS_PER_MINUTE |-> jsMul(toNumber(proxyCount), PROXY_TOKENS_PER_SECOND * 60),
        REFILL_RATE |-> jsMul(toNumber(proxyCount), PROXY_TOKENS_PER_SECOND)]

\* getProxyEndpoints is async: getDynamicRateLimits reads .length of the
\* promise it returns, which is undefined
getDynamicRateLimits == calculateDynamicRateLimits(Absent)

\* tokens + timePassed * rate, timePassed = elapsed ms / 1000
refilled(tokens, elapsed, rate) ==
  IF tokens = NaN \/ rate = NaN THEN NaN ELSE tokens + (elapsed * rate) \div 1000

\* a read that fails counts as an empty bucket
tokenBucket_failClosed(key, maxTokens, rate, cache, kv, t, readOk, writeOk) ==
  LET cached == cache[key]
      existing == IF readOk THEN kv[key] ELSE [tokens |-> 0, lastRefill |-> t, lastUpdate |-> 0]
      tokens == IF cached # NoBucket /\ t - cached.lastUpdate < RL_CACHE_TTL
                THEN jsMin(maxTokens, refilled(cached.tokens, t - cached.lastRefill, rate))
                ELSE IF existing # NoBucket
                     THEN jsMin(maxTokens, refilled(existing.tokens, t - existing.lastRefill, rate))
                     ELSE maxTokens
      allowed == ~jsLt(tokens, 1)
      left == IF allowed THEN jsAdd(tokens, 0 - 1) ELSE tokens
  IN [allowed |-> allowed,
      cache |-> [cache EXCEPT ![key] = [tokens |-> left, lastRefill |-> t, lastUpdate |-> t]],
      kv |-> IF writeOk
             THEN [kv EXCEPT ![key] = [tokens |-> left, lastRefill |-> t, lastUpdate |-> 0]]
             ELSE kv]

\* the put is awaited: its rejection reaches the outer catch, which allows
tokenBucket_awaitsPut(key, maxTokens, rate, cache, kv, t, readOk, writeOk) ==
  LET cached == cache[key]
      existing == IF readOk THEN kv[key] ELSE NoBucket
      tokens == IF cached # NoBucket /\ t - cached.lastUpdate < RL_CACHE_TTL
                THEN jsMin(maxTokens, refilled(cached.tokens, t - cached.lastRefill, rate))
                ELSE IF existing # NoBucket
                     THEN jsMin(maxTokens, refilled(existing.tokens, t - existing.lastRefill, rate))
                     ELSE maxTokens
      allowed == ~jsLt(tokens, 1)
      left == IF allowed THEN jsAdd(tokens, 0 - 1) ELSE tokens
  IN [allowed |-> allowed \/ ~writeOk,
      cache |-> [cache EXCEPT ![key] = [tokens |-> left, lastRefill |-> t, lastUpdate |-> t]],
      kv |-> IF writeOk
             THEN [kv EXCEPT ![key] = [tokens |-> left, lastRefill |-> t, lastUpdate |-> 0]]
             ELSE kv]

\* The body shared by checkRateLimit and checkProxyRateLimit: the decision and
\* both tiers afterwards.  readOk: RATE_LIMIT_KV.get answers; writeOk: the
\* fire-and-forget RATE_LIMIT_KV.put arrives.
tokenBucket(key, maxTokens, rate, cache, kv, t, readOk, writeOk) ==
  LET cached == cache[key]
      existing == IF readOk THEN kv[key] ELSE NoBucket
      tokens == IF cached # NoBucket /\ t - cached.lastUpdate < RL_CACHE_TTL
                THEN jsMin(maxTokens, refilled(cached.tokens, t - cached.lastRefill, rate))
                ELSE IF existing # NoBucket
                     THEN jsMin(maxTokens, refilled(existing.tokens, t - existing.lastRefill, rate))
                     ELSE maxTokens
      allowed == ~jsLt(tokens, 1)
      left == IF allowed THEN jsAdd(tokens, 0 - 1) ELSE tokens
  IN [allowed |-> allowed,
      cache |-> [cache EXCEPT ![key] = [tokens |-> left, lastRefill |-> t, lastUpdate |-> t]],
      kv |-> IF writeOk
             THEN [kv EXCEPT ![key] = [tokens |-> left, lastRefill |-> t, lastUpdate |-> 0]]
             ELSE kv]

checkRateLimit(ip, cache, kv, t, readOk, writeOk) ==
  tokenBucket(clientKey(ip), getDynamicRateLimits.TOKENS_PER_MINUTE,
              getDynamicRateLimits.REFILL_RATE, cache, kv, t, readOk, writeOk)

\* twice the capacity
checkProxyRateLimit_twice(proxyUrl, cache, kv, t, readOk, writeOk) ==
  tokenBucket(proxyKey(proxyUrl), 2 * PROXY_MAX_TOKENS, PROXY_REFILL_RATE,
              cache, kv, t, readOk, writeOk)

\* the mutant of checkProxyRateLimit: the cached bucket is never used
checkProxyRateLimit_kvOnly(proxyUrl, cache, kv, t, readOk, writeOk) ==
  tokenBucket(proxyKey(proxyUrl), PROXY_MAX_TOKENS, PROXY_REFILL_RATE,
              [cache EXCEPT ![proxyKey(proxyUrl)] = NoBucket], kv, t, readOk, writeOk)

checkProxyRateLimit(proxyUrl, cache, kv, t, readOk, writeOk) ==
  tokenBucket(proxyKey(proxyUrl), PROXY_MAX_TOKENS, PROXY_REFILL_RATE,
              cache, kv, t, readOk, writeOk)

cleanupCacheIfNeeded(cache, t) ==
  IF Cardinality({k \in RLKeys : cache[k] # NoBucket}) > CLEANUP_SIZE
  THEN [k \in RLKeys |->
          IF cache[k] # NoBucket /\ t - cache[k].lastUpdate > RL_CACHE_TTL * 2
          THEN NoBucket ELSE cache[k]]
  ELSE cache

\* the proxy dimension is applied to the direct upstream too, on the first proxy's bucket
checkCombinedRateLimit_alwaysProxy(ip, ep, cache, kv, t, readOk, writeOk) ==
  LET cleaned == cleanupCacheIfNeeded(cache, t)
      client == checkRateLimit(ip, cleaned, kv, t, readOk, writeOk)
      proxy == checkProxyRateLimit(IF ep = API_URL THEN ProxyList[1] ELSE ep,
                                   client.cache, client.kv, t, readOk, writeOk)
  IN IF ~client.allowed
     THEN [allowed |-> FALSE, reason |-> "Client rate limit exceeded",
           cache |-> client.cache, kv |-> client.kv, taken |-> 0]
     ELSE IF ~proxy.allowed
          THEN [allowed |-> FALSE, reason |-> "Proxy rate limit exceeded",
                cache |-> proxy.cache, kv |-> proxy.kv, taken |-> 1]
          ELSE [allowed |-> TRUE, reason |-> "",
                cache |-> proxy.cache, kv |-> proxy.kv, taken |-> 2]

\* checkCombinedRateLimit: the decision, its reason, both tiers afterwards, and
\* taken, the number of dimensions that admitted
checkCombinedRateLimit(ip, ep, cache, kv, t, readOk, writeOk) ==
  LET cleaned == cleanupCacheIfNeeded(cache, t)
      client == checkRateLimit(ip, cleaned, kv, t, readOk, writeOk)
      proxy == checkProxyRateLimit(ep, client.cache, client.kv, t, readOk, writeOk)
  IN IF ~client.allowed
     THEN [allowed |-> FALSE, reason |-> "Client rate limit exceeded",
           cache |-> client.cache, kv |-> client.kv, taken |-> 0]
     ELSE IF ep # "" /\ ep # API_URL
          THEN IF ~proxy.allowed
               THEN [allowed |-> FALSE, reason |-> "Proxy rate limit exceeded",
                     cache |-> proxy.cache, kv |-> proxy.kv, taken |-> 1]
               ELSE [allowed |-> TRUE, reason |-> "",
                     cache |-> proxy.cache, kv |-> proxy.kv, taken |-> 2]
          ELSE [allowed |-> TRUE, reason |-> "",
                cache |-> client.cache, kv |-> client.kv, taken |-> 1]

(***************************************************************************)
(* query.ts: the request builder's validation and the upstream's answers.  *)
(***************************************************************************)
\* JSON.stringify(requestData) without text, tags, id and timestamp
ENVELOPE_BYTES == 201
\* Date.now() has 13 decimal digits
TIMESTAMP_DIGITS == 13

RECURSIVE digits(_)
digits(n) == IF n < 10 THEN 1 ELSE 1 + digits(n \div 10)

\* buildRequestParams: the request id from Date.now() % 100000000 and the random component
requestIdOf(wallMod, randomComponent) == wallMod + (randomComponent % 100000000)

methodSpaced(requestId) == (requestId + 5) % 29 = 0 \/ (requestId + 3) % 13 = 0

buildError(n) == Err("Error", FALSE, Absent, Absent, n)

\* buildRequestBody(data): ok, or the Error it throws; n is the invocation
buildRequestBody(data, wallMod, randomComponent, n) ==
  LET sourceLang == IF data.source_lang \in {"", Null} THEN "auto" ELSE data.source_lang
      targetLang == IF data.target_lang \in {"", Null} THEN "en" ELSE data.target_lang
      requestId == requestIdOf(wallMod, randomComponent)
      payloadSize == ENVELOPE_BYTES + textLength(data.text)
                     + tagLength(normalizeLanguageCode(sourceLang))
                     + tagLength(normalizeLanguageCode(targetLang))
                     + digits(requestId) + TIMESTAMP_DIGITS
                     + (IF methodSpaced(requestId) THEN 2 ELSE 1)
  IN IF textLength(data.text) = 0 THEN [ok |-> FALSE, error |-> buildError(n)]
     ELSE IF textLength(data.text) > MAX_TEXT_LENGTH THEN [ok |-> FALSE, error |-> buildError(n)]
     ELSE IF payloadSize > MAX_REQUEST_SIZE THEN [ok |-> FALSE, error |-> buildError(n)]
     ELSE [ok |-> TRUE, error |-> NoError]

\* what a transport call can end with
Resp(k, status, code, text, lang, id) ==
  [kind |-> k, status |-> status, code |-> code, text |-> text, lang |-> lang, id |-> id]
NoResp == Resp("none", Absent, Absent, Null, Null, 0)

Responses ==
  {Resp("reject", Absent, Absent, Null, Null, 0),      \* fetch rejects: TypeError, "fetch failed"
   Resp("rejectPlain", Absent, Absent, Null, Null, 0), \* fetch rejects with a plain Error
   Resp("timeout", Absent, Absent, Null, Null, 0),     \* the deadline aborts the call
   Resp("badjson", 200, Absent, Null, Null, 0),        \* response.json() throws
   Resp("nostructure", 200, Absent, Null, Null, 0)}    \* neither error nor result.texts
  \cup {Resp("http", st, Absent, Null, Null, 0) : st \in {400, 503}}
  \cup {Resp("error", 200, c, Null, Null, 0) : c \in {200, 429, 1042912}}
  \cup {Resp("success", 200, Absent, "T", "zh", 12345),
        Resp("success", 200, Absent, "T", "", 0),
        Resp("success", 200, Absent, "", "zh", 12345)}

\* the error an attempt throws for a response that is not a success
responseError(r, n) ==
  CASE r.kind = "reject" -> Err("TypeError", TRUE, Absent, Absent, n)
    [] r.kind = "rejectPlain" -> Err("Error", FALSE, Absent, Absent, n)
    [] r.kind = "timeout" -> Err("Error", FALSE, 408, Absent, n)
    [] r.kind = "http" -> Err("Error", FALSE, r.status, Absent, n)
    [] r.kind = "badjson" -> Err("Error", FALSE, Absent, 500, n)
    [] r.kind = "error" -> Err("Error", FALSE, Absent, r.code, n)
    [] OTHER -> Err("Error", FALSE, Absent, 500, n)

NoParams == [text |-> EmptyText, source_lang |-> "", target_lang |-> ""]
NoKey == <<<<0, 0>>, "", "">>

(***************************************************************************)
(* The request lifecycle: POST /translate (index.ts) and query (query.ts). *)
(***************************************************************************)
cfgVars == <<PROXY_URLS, script, clsErr, clsOut, auxVars>>

\* the request-local state of a request that starts
Fresh ==
  /\ attempt' = 0
  /\ lastError' = Undefined
  /\ curErr' = NoError
  /\ thrown' = NoError
  /\ endpoint' = ""
  /\ opCalls' = 0
  /\ delays' = <<>>
  /\ selectCalls' = 0
  /\ admitCalls' = 0
  /\ tokensTaken' = 0
  /\ transportCalls' = 0
  /\ denials' = 0
  /\ cacheFresh' = NoEntry
  /\ cacheReadable' = NoEntry
  /\ clientEmpty' = FALSE
  /\ upstream' = NoResp

HandlerTexts == {EmptyText, TextAa, TextBB}
HandlerSources == {"", "e!"}
HandlerTargets == {"zh", "e!"}

\* POST /translate up to the cache lookup: validation, truncation, normalization
HandlerStart(text, src, tgt) ==
  /\ pc = "idle"
  /\ requests < MaxRequests
  /\ requests' = requests + 1
  /\ kind' = "handler"
  /\ Fresh
  /\ maxRetries' = DEFAULT_RETRY_maxRetries
  /\ LET sanitizedText == sliceText(text)
         sourceLang == IF src # "" THEN validateLanguageCode(src) ELSE "auto"
         targetLang == IF tgt # "" THEN validateLanguageCode(tgt) ELSE "en"
         normalizedSourceLang == normalizeLanguageCode(sourceLang)
         normalizedTargetLang == normalizeLanguageCode(targetLang)
     IN IF textLength(text) = 0 \/ sourceLang = Null \/ targetLang = Null
        THEN /\ pc' = "done"
             /\ \E rnd \in RandomIds :
                  result' = createStandardResponse(400, Null, Absent, Null, Null, rnd)
             /\ params' = [text |-> text, source_lang |-> src, target_lang |-> tgt]
             /\ cacheKey' = NoKey
        ELSE /\ pc' = "cacheGet"
             /\ result' = NoResult
             /\ params' = [text |-> sanitizedText, source_lang |-> normalizedSourceLang,
                           target_lang |-> normalizedTargetLang]
             /\ cacheKey' = generateCacheKey(sanitizedText, normalizedSourceLang,
                                             normalizedTargetLang)
  /\ UNCHANGED <<now, ticks, storeVars, cfgVars>>

\* getCachedTranslation and the branch on its result; on a miss query() begins
CacheLookup(kvOk) ==
  /\ kind = "handler"
  /\ pc = "cacheGet"
  /\ LET r == getCachedTranslation(cacheKey, memoryCache, cacheKV, now, kvOk)
     IN /\ memoryCache' = r.mem
        /\ cacheFresh' = (IF isFresh(memoryCache[cacheKey], now) THEN memoryCache[cacheKey]
                           ELSE IF isFresh(cacheKV[cacheKey], now) THEN cacheKV[cacheKey]
                           ELSE NoEntry)
        /\ cacheReadable' = (IF isFresh(memoryCache[cacheKey], now) THEN memoryCache[cacheKey]
                              ELSE IF kvOk /\ isFresh(cacheKV[cacheKey], now) THEN cacheKV[cacheKey]
                              ELSE NoEntry)
        /\ IF r.entry # NoEntry
           THEN /\ pc' = "done"
                /\ \E rnd1 \in RandomIds, rnd2 \in RandomIds :
                     result' = createStandardResponse(200, r.entry.data,
                                 IF Truthy(r.entry.id) THEN r.entry.id ELSE rnd1,
                                 r.entry.source_lang, r.entry.target_lang, rnd2)
           ELSE /\ pc' = "loop"
                /\ UNCHANGED result
  /\ UNCHANGED <<now, ticks, requests, cfgVars, cacheKV, rateLimitCache, rateLimitKV,
                 kind, params, cacheKey, retryVars, endpoint, selectCalls, admitCalls,
                 tokensTaken, transportCalls, denials, clientEmpty, upstream>>

QueryTexts == {EmptyText, TextAa, TextLong}
QuerySources == {""}
QueryTargets == {"zh", "x40000"}

\* the mutant of textMissing: the check of params.text is gone
textMissing_never(text) == FALSE

\* !params?.text
textMissing(text) == textLength(text) = 0

\* query(params, config) called directly, config.env present: the check of params.text
QueryStart(text, src, tgt) ==
  /\ pc = "idle"
  /\ requests < MaxRequests
  /\ requests' = requests + 1
  /\ kind' = "query"
  /\ Fresh
  /\ maxRetries' = DEFAULT_RETRY_maxRetries
  /\ params' = [text |-> text, source_lang |-> src, target_lang |-> tgt]
  /\ cacheKey' = NoKey
  /\ IF textMissing(text)
     THEN /\ pc' = "done"
          /\ \E rnd \in RandomIds :
               result' = createStandardResponse(400, Null, Absent,
                           normalizeLanguageCode(IF src = "" THEN "auto" ELSE src),
                           normalizeLanguageCode(IF tgt = "" THEN "en" ELSE tgt), rnd)
     ELSE /\ pc' = "loop"
          /\ result' = NoResult
  /\ UNCHANGED <<now, ticks, storeVars, cfgVars>>

\* the token count the documented bucket of the client holds at time t: capacity
\* proxyCount * 8 * 60 (480 without proxies), refilled from the stored state
clientTokensDue(cache, kv, t) ==
  LET limits == calculateDynamicRateLimits(Len(PROXY_URLS))
      key == clientKey(clientIP)
      stored == IF cache[key] # NoBucket /\ t - cache[key].lastUpdate < RL_CACHE_TTL
                THEN cache[key] ELSE kv[key]
  IN IF stored = NoBucket THEN limits.TOKENS_PER_MINUTE
     ELSE jsMin(limits.TOKENS_PER_MINUTE,
                refilled(stored.tokens, t - stored.lastRefill, limits.REFILL_RATE))

\* one attempt, up to the admission decision: selectProxy, the endpoint,
\* checkCombinedRateLimit
OpAdmit(idx, readOk, writeOk) ==
  /\ kind \in {"handler", "query"}
  /\ pc = "op"
  /\ LET ep == IF idx = 0 THEN API_URL ELSE PROXY_URLS[idx]
         r == checkCombinedRateLimit(clientIP, ep, rateLimitCache, rateLimitKV, now,
                                     readOk, writeOk)
     IN /\ endpoint' = ep
        /\ rateLimitCache' = r.cache
        /\ rateLimitKV' = r.kv
        /\ tokensTaken' = tokensTaken + r.taken
        /\ clientEmpty' = (clientEmpty \/ jsLt(clientTokensDue(rateLimitCache, rateLimitKV, now), 1))
        /\ IF r.allowed
           THEN /\ pc' = "build"
                /\ UNCHANGED <<curErr, denials>>
           ELSE /\ pc' = "caught"
                /\ curErr' = Err("Error", FALSE, Absent, 429, opCalls)
                /\ denials' = denials + 1
  /\ selectCalls' = selectCalls + 1
  /\ admitCalls' = admitCalls + 1
  /\ UNCHANGED <<now, ticks, requests, cfgVars, memoryCache, cacheKV, kind, params,
                 cacheKey, maxRetries, attempt, lastError, thrown, result, opCalls,
                 delays, transportCalls, cacheFresh, cacheReadable, upstream>>

WallMods == {19, 12345678}
RandomComponents == {5}

\* makeRequest up to fetch: buildRequestBody, then the transport call is issued
OpBuildSend(wallMod, randomComponent) ==
  /\ kind \in {"handler", "query"}
  /\ pc = "build"
  /\ LET b == buildRequestBody(params, wallMod, randomComponent, opCalls)
     IN IF b.ok
        THEN /\ pc' = "fetch"
             /\ transportCalls' = transportCalls + 1
             /\ UNCHANGED curErr
        ELSE /\ pc' = "caught"
             /\ curErr' = b.error
             /\ UNCHANGED transportCalls
  /\ UNCHANGED <<now, ticks, requests, cfgVars, storeVars, kind, params, cacheKey,
                 maxRetries, attempt, lastError, thrown, endpoint, result, opCalls,
                 delays, selectCalls, admitCalls, tokensTaken, denials, cacheFresh,
                 cacheReadable, clientEmpty, upstream>>

\* the transport call ends and the attempt reads the response
OpResponse(r) ==
  /\ kind \in {"handler", "query"}
  /\ pc = "fetch"
  /\ upstream' = r
  /\ now' = now + (IF r.kind = "timeout" THEN REQUEST_TIMEOUT ELSE 0)
  /\ IF r.kind = "success"
     THEN /\ pc' = "returned"
          /\ \E rnd \in RandomIds :
               result' = createStandardResponse(200, r.text, r.id, toUpperCase(r.lang),
                           normalizeLanguageCode(params.target_lang), rnd)
          /\ UNCHANGED curErr
     ELSE /\ pc' = "caught"
          /\ curErr' = responseError(r, opCalls)
          /\ UNCHANGED result
  /\ UNCHANGED <<ticks, requests, cfgVars, storeVars, kind, params, cacheKey,
                 maxRetries, attempt, lastError, thrown, endpoint, opCalls, delays,
                 selectCalls, admitCalls, tokensTaken, transportCalls, denials,
                 cacheFresh, cacheReadable, clientEmpty>>

\* fetch resolves with the response's head before the deadline, which
\* clears the deadline's timer; the body never ends, and response.text() or
\* response.json() never settles
OpStall(status) ==
  /\ kind \in {"handler", "query"}
  /\ pc = "fetch"
  /\ upstream' = Resp("stall", status, Absent, Null, Null, 0)
  /\ now' = now + REQUEST_TIMEOUT
  /\ pc' = "hung"
  /\ UNCHANGED <<ticks, requests, cfgVars, storeVars, kind, params, cacheKey,
                 retryVars, endpoint, result, selectCalls, admitCalls, tokensTaken,
                 transportCalls, denials, cacheFresh, cacheReadable, clientEmpty>>

\* query's result: what retryWithBackoff returned, or the catch block's response
queryResult(rnd) ==
  IF pc = "returned"
  THEN result
  ELSE createStandardResponse(createErrorResponse(thrown), Null, Absent,
         normalizeLanguageCode(IF params.source_lang = "" THEN "auto" ELSE params.source_lang),
         normalizeLanguageCode(IF params.target_lang = "" THEN "en" ELSE params.target_lang),
         rnd)

\* every result is cached
shouldCache_always(res) == TRUE

\* the handler's test before setCachedTranslation: result.code === 200 && result.data
shouldCache(res) == res.code = 200 /\ res.data \notin {"", Null}

\* query returns; the handler caches a successful translation and responds
QueryDone(kvOk) ==
  /\ kind \in {"handler", "query"}
  /\ pc \in {"returned", "thrown"}
  /\ \E rnd \in RandomIds :
       LET res == queryResult(rnd)
           entry == [data |-> res.data, timestamp |-> now,
                     source_lang |-> res.source_lang, target_lang |-> res.target_lang,
                     id |-> res.id]
           c == setCachedTranslation(cacheKey, entry, memoryCache, cacheKV, kvOk)
       IN /\ result' = res
          /\ IF kind = "handler" /\ shouldCache(res)
             THEN memoryCache' = c.mem /\ cacheKV' = c.kv
             ELSE UNCHANGED <<memoryCache, cacheKV>>
  /\ pc' = "done"
  /\ UNCHANGED <<now, ticks, requests, cfgVars, rateLimitCache, rateLimitKV, kind,
                 params, cacheKey, retryVars, endpoint, ghostVars>>

\* the response is sent; the request's local state is dropped
Finish ==
  /\ kind \in {"handler", "query"}
  /\ pc = "done"
  /\ pc' = "idle"
  /\ kind' = "idle"
  /\ params' = NoParams
  /\ cacheKey' = NoKey
  /\ result' = NoResult
  /\ Fresh
  /\ UNCHANGED <<now, ticks, requests, cfgVars, storeVars, maxRetries>>

\* handleScheduled: clearMemoryCache()
Scheduled ==
  /\ pc = "idle"
  /\ \E k \in CacheKeys : memoryCache[k] # NoEntry
  /\ memoryCache' = [k \in CacheKeys |-> NoEntry]
  /\ UNCHANGED <<now, ticks, requests, cfgVars, cacheKV, rateLimitCache, rateLimitKV,
                 kind, pc, params, cacheKey, retryVars, endpoint, result, ghostVars>>

TimeJumps == {5000, 3600000}

\* time passes between two requests
Tick(d) ==
  /\ pc = "idle"
  /\ ticks < MaxTicks
  /\ ticks' = ticks + 1
  /\ now' = now + d
  /\ UNCHANGED <<requests, cfgVars, storeVars, kind, pc, params, cacheKey, retryVars,
                 endpoint, result, ghostVars>>

(***************************************************************************)
(* The circuit breakers (circuitBreaker.ts).                               *)
(***************************************************************************)
FAILURE_THRESHOLD == 5
RECOVERY_TIMEOUT == 30000
SUCCESS_THRESHOLD == 3

\* the URLs execute is called for
BreakerUrls == {ProxyList[1], ProxyList[2]}
\* the keys the registry can hold
BreakerKeys == ProxyPool \cup {API_URL}

\* no entry in the registry
NoBreaker == [state |-> "NONE", failureCount |-> 0, lastFailureTime |-> 0, successCount |-> 0]
\* new CircuitBreaker()
NewBreaker == [state |-> "CLOSED", failureCount |-> 0, lastFailureTime |-> 0, successCount |-> 0]

\* the mutant of getCircuitBreaker: every lookup makes a new breaker
getCircuitBreaker_fresh(breakers, proxyUrl) == [breakers EXCEPT ![proxyUrl] = NewBreaker]

\* getCircuitBreaker(proxyUrl): the registry afterwards
getCircuitBreaker(breakers, proxyUrl) ==
  IF breakers[proxyUrl] = NoBreaker THEN [breakers EXCEPT ![proxyUrl] = NewBreaker] ELSE breakers

\* the mutant of executeGate: the breaker half-opens once the timeout is reached
executeGate_atTimeout(b, t) ==
  IF b.state = "OPEN"
  THEN IF t - b.lastFailureTime >= RECOVERY_TIMEOUT
       THEN [reject |-> FALSE, b |-> [b EXCEPT !.state = "HALF_OPEN", !.successCount = 0]]
       ELSE [reject |-> TRUE, b |-> b]
  ELSE [reject |-> FALSE, b |-> b]

\* execute, before the operation: reject, or the state the operation is invoked in
executeGate(b, t) ==
  IF b.state = "OPEN"
  THEN IF t - b.lastFailureTime > RECOVERY_TIMEOUT
       THEN [reject |-> FALSE, b |-> [b EXCEPT !.state = "HALF_OPEN", !.successCount = 0]]
       ELSE [reject |-> TRUE, b |-> b]
  ELSE [reject |-> FALSE, b |-> b]

\* the mutant of onSuccess: a success resets failureCount in every state but HALF_OPEN
onSuccess_resetsOpen(b) ==
  IF b.state = "HALF_OPEN"
  THEN IF b.successCount + 1 >= SUCCESS_THRESHOLD
       THEN [b EXCEPT !.successCount = b.successCount + 1, !.state = "CLOSED", !.failureCount = 0]
       ELSE [b EXCEPT !.successCount = b.successCount + 1]
  ELSE [b EXCEPT !.failureCount = 0]

\* the mutant of onSuccess: one success closes a half-open breaker
onSuccess_closesAtOnce(b) ==
  IF b.state = "HALF_OPEN"
  THEN [b EXCEPT !.successCount = b.successCount + 1, !.state = "CLOSED", !.failureCount = 0]
  ELSE IF b.state = "CLOSED" THEN [b EXCEPT !.failureCount = 0]
  ELSE b

onSuccess(b) ==
  IF b.state = "HALF_OPEN"
  THEN IF b.successCount + 1 >= SUCCESS_THRESHOLD
       THEN [b EXCEPT !.successCount = b.successCount + 1, !.state = "CLOSED", !.failureCount = 0]
       ELSE [b EXCEPT !.successCount = b.successCount + 1]
  ELSE IF b.state = "CLOSED" THEN [b EXCEPT !.failureCount = 0]
  ELSE b

\* the mutant of onFailure: the breaker opens one failure late
onFailure_late(b, t) ==
  IF b.failureCount + 1 > FAILURE_THRESHOLD
  THEN [b EXCEPT !.failureCount = b.failureCount + 1, !.lastFailureTime = t, !.state = "OPEN"]
  ELSE [b EXCEPT !.failureCount = b.failureCount + 1, !.lastFailureTime = t]

onFailure(b, t) ==
  IF b.failureCount + 1 >= FAILURE_THRESHOLD
  THEN [b EXCEPT !.failureCount = b.failureCount + 1, !.lastFailureTime = t, !.state = "OPEN"]
  ELSE [b EXCEPT !.failureCount = b.failureCount + 1, !.lastFailureTime = t]

Event(k, url, before, after, at) ==
  [kind |-> k, url |-> url, before |-> before, after |-> after, at |-> at]
NoEvent == Event("none", "", NoBreaker, NoBreaker, 0)

runVars == <<kind, pc, params, cacheKey, retryVars, endpoint, result, ghostVars>>

\* getCircuitBreaker(url).execute(operation), up to the call of operation
BreakerExecute(url) ==
  /\ kind = "breaker"
  /\ execs < MaxExecutes
  /\ inflight[url] < MaxInFlight
  /\ execs' = execs + 1
  /\ LET got == getCircuitBreaker(circuitBreakers, url)
         g == executeGate(got[url], now)
     IN /\ circuitBreakers' = [got EXCEPT ![url] = g.b]
        /\ lastEvent' = Event(IF g.reject THEN "reject" ELSE "invoke", url, got[url], g.b, now)
        /\ inflight' = IF g.reject THEN inflight ELSE [inflight EXCEPT ![url] = @ + 1]
        /\ hoSucc' = IF got[url].state = "OPEN" /\ g.b.state = "HALF_OPEN"
                     THEN [hoSucc EXCEPT ![url] = 0] ELSE hoSucc
  /\ UNCHANGED <<now, ticks, requests, PROXY_URLS, storeVars, runVars, script, clsVars, streak,
                 bucketVars, lastCacheOp, built, loop>>

\* the operation resolves: onSuccess()
BreakerSuccess(url) ==
  /\ kind = "breaker"
  /\ inflight[url] > 0
  /\ inflight' = [inflight EXCEPT ![url] = @ - 1]
  /\ LET b == circuitBreakers[url]
         a == onSuccess(b)
     IN /\ circuitBreakers' = [circuitBreakers EXCEPT ![url] = a]
        /\ lastEvent' = Event("success", url, b, a, now)
        /\ streak' = [streak EXCEPT ![url] = 0]
        /\ hoSucc' = IF b.state = "HALF_OPEN" THEN [hoSucc EXCEPT ![url] = @ + 1] ELSE hoSucc
  /\ UNCHANGED <<now, ticks, requests, PROXY_URLS, storeVars, runVars, script, clsVars, execs,
                 bucketVars, lastCacheOp, built, loop>>

\* the operation rejects: onFailure()
BreakerFailure(url) ==
  /\ kind = "breaker"
  /\ inflight[url] > 0
  /\ inflight' = [inflight EXCEPT ![url] = @ - 1]
  /\ LET b == circuitBreakers[url]
         a == onFailure(b, now)
     IN /\ circuitBreakers' = [circuitBreakers EXCEPT ![url] = a]
        /\ lastEvent' = Event("failure", url, b, a, now)
        /\ streak' = [streak EXCEPT ![url] = @ + 1]
  /\ UNCHANGED <<now, ticks, requests, PROXY_URLS, storeVars, runVars, script, clsVars, execs,
                 hoSucc, bucketVars, lastCacheOp, built, loop>>

BreakerTimeSteps == {1, RECOVERY_TIMEOUT}

\* time passes
BreakerTick(d) ==
  /\ kind = "breaker"
  /\ ticks < MaxBreakerTicks
  /\ ticks' = ticks + 1
  /\ now' = now + d
  /\ UNCHANGED <<requests, PROXY_URLS, storeVars, runVars, script, clsVars, auxVars>>

(***************************************************************************)
(* rateLimit.ts driven directly: admission checks at chosen instants, with *)
(* RATE_LIMIT_KV answering or failing call by call.                        *)
(***************************************************************************)
BucketProxy == ProxyList[1]
BucketEndpoints == {API_URL, BucketProxy}
BucketKeys == {clientKey(clientIP), proxyKey(BucketProxy)}

\* what a check of one bucket met and decided.  elapsed: ms since the previous
\* check of the bucket (Absent: there was none); prev: the previous decision;
\* burst: the position of the check in a run of checks at one instant that
\* began on a full bucket (0: no such run), counted up to a cap
Check(made, allowed, at, elapsed, prev, burst) ==
  [made |-> made, allowed |-> allowed, at |-> at, elapsed |-> elapsed, prev |-> prev,
   burst |-> burst]
NoCheck == Check(FALSE, FALSE, 0, Absent, "none", 0)

\* the record of a check at t with decision allowed.  stored: RATE_LIMIT_KV held
\* a bucket for the key when the key was checked first.  fullAfter: the ms that
\* refill an empty bucket (Absent: unknown).
noteCheck(before, allowed, stored, t, fullAfter, cap) ==
  LET elapsed == IF before.made THEN t - before.at ELSE Absent
      full == IF before.made THEN fullAfter # Absent /\ elapsed >= fullAfter
              ELSE ~stored
      burst == IF full THEN 1
               ELSE IF before.burst >= 1 /\ elapsed = 0
                    THEN (IF before.burst < cap THEN before.burst + 1 ELSE cap)
                    ELSE 0
  IN Check(TRUE, allowed, t, elapsed,
           IF ~before.made THEN "none" ELSE IF before.allowed THEN "allowed" ELSE "denied",
           burst)

\* the ms after which an empty proxy bucket is full again
PROXY_FULL_AFTER == (PROXY_MAX_TOKENS * 1000) \div PROXY_REFILL_RATE

KvAnswers == IF kvUp THEN BOOLEAN ELSE {FALSE}

bucketFrame == <<ticks, requests, PROXY_URLS, memoryCache, cacheKV, runVars, script,
                 clsVars, breakerVars, kvUp, lastCacheOp, built, loop>>

\* checkCombinedRateLimit(clientIP, ep, env)
CombinedCheck(ep, readOk, writeOk) ==
  /\ kind = "bucket"
  /\ LET r == checkCombinedRateLimit(clientIP, ep, rateLimitCache, rateLimitKV, now,
                                     readOk, writeOk)
         ck == clientKey(clientIP)
         pk == proxyKey(ep)
         client == checkRateLimit(clientIP, cleanupCacheIfNeeded(rateLimitCache, now),
                                  rateLimitKV, now, readOk, writeOk)
     IN /\ rateLimitCache' = r.cache
        /\ rateLimitKV' = r.kv
        /\ lastCheck' =
             [k \in BucketKeys |->
                IF k = ck
                THEN noteCheck(lastCheck[k], client.allowed, rateLimitKV[k] # NoBucket,
                               now, Absent, MaxClientBurst)
                ELSE IF k = pk /\ client.allowed /\ ep # API_URL
                THEN noteCheck(lastCheck[k], r.allowed, rateLimitKV[k] # NoBucket,
                               now, PROXY_FULL_AFTER, MaxBurst)
                ELSE lastCheck[k]]
  /\ UNCHANGED <<now, bucketFrame>>

\* whole multiples of 1000 / PROXY_REFILL_RATE ms, which keep token counts whole
BucketTimeSteps == {125, 5000}

\* time passes
BucketTick(d) ==
  /\ kind = "bucket"
  /\ ticks < MaxBucketTicks
  /\ ticks' = ticks + 1
  /\ now' = now + d
  /\ UNCHANGED <<requests, PROXY_URLS, storeVars, runVars, script, clsVars, auxVars>>

(***************************************************************************)
(* cache.ts driven directly: gets and sets of two keys at chosen instants, *)
(* with CACHE_KV answering or failing call by call.                        *)
(***************************************************************************)
CacheSpecKeys == {generateCacheKey(TextAa, src, "ZH") : src \in NormalTags}

\* the entry the handler writes for a translation that completed at t
entryAt(t) == [data |-> "T", timestamp |-> t, source_lang |-> "EN", target_lang |-> "ZH", id |-> 12345]

CacheOp(op, key, hit, kvOk) == [op |-> op, key |-> key, hit |-> hit, kvOk |-> kvOk]
NoCacheOp == CacheOp("none", NoKey, FALSE, FALSE)

cacheFrame == <<ticks, requests, PROXY_URLS, rateLimitCache, rateLimitKV, runVars, script,
                clsVars, breakerVars, bucketVars, built, loop>>

\* getCachedTranslation(key, env)
CacheGet(key, kvOk) ==
  /\ kind = "cache"
  /\ LET r == getCachedTranslation(key, memoryCache, cacheKV, now, kvOk)
     IN /\ memoryCache' = r.mem
        /\ lastCacheOp' = CacheOp(IF isFresh(memoryCache[key], now) THEN "getLocal" ELSE "getDurable",
                                  key, r.entry # NoEntry, kvOk)
  /\ UNCHANGED <<now, cacheKV, cacheFrame>>

\* setCachedTranslation(key, entry, env) with an entry stamped Date.now()
CacheSet(key, kvOk) ==
  /\ kind = "cache"
  /\ LET c == setCachedTranslation(key, entryAt(now), memoryCache, cacheKV, kvOk)
     IN /\ memoryCache' = c.mem
        /\ cacheKV' = c.kv
  /\ lastCacheOp' = CacheOp("set", key, FALSE, kvOk)
  /\ UNCHANGED <<now, cacheFrame>>

\* one ms, and one ms less than CACHE_TTL
CacheTimeSteps == {1, CACHE_TTL * 1000 - 1}

\* time passes
CacheTick(d) ==
  /\ kind = "cache"
  /\ ticks < MaxCacheTicks
  /\ ticks' = ticks + 1
  /\ now' = now + d
  /\ UNCHANGED <<requests, PROXY_URLS, storeVars, runVars, script, clsVars, auxVars>>

(***************************************************************************)
(* query.ts: the request body, field by field.                             *)
(***************************************************************************)
\* Date.now() as hi * 10^8 + lo
Wall(hi, lo) == [hi |-> hi, lo |-> lo]
wallRem(w, m) == (w.hi * (100000000 % m) + w.lo) % m
wallAdd(w, d) == Wall(w.hi + ((w.lo + d) \div 100000000), (w.lo + d) % 100000000)

\* "c".repeat(n)
Repeat(c, n) == [i \in 1..n |-> c]

\* (translateText || "").split("i").length - 1
countLetterI(text) == Cardinality({i \in 1..Len(text.chars) : text.chars[i] = 105})

\* getTimestamp(letterCount) at wall-clock value timestamp
getTimestamp(letterCount, timestamp) ==
  LET safeLetterCount == IF letterCount > 0 THEN letterCount ELSE 0
      modValue == safeLetterCount + 1
      step == modValue - wallRem(timestamp, modValue)
  IN IF safeLetterCount = 0 THEN timestamp
     ELSE IF modValue <= 0 \/ modValue > 1000 THEN timestamp
     ELSE IF step >= 0 - 1000 THEN wallAdd(timestamp, step)
     ELSE timestamp

\* one "key":value of the serialized request, with the text between key and value
Field(key, sep, value) == [key |-> key, sep |-> sep, value |-> value]

\* JSON.stringify(requestData): the fields in the order of their creation
stringify(data, requestId, timestamp) ==
  <<Field("jsonrpc", ":", "2.0"),
    Field("method", ":", "LMT_handle_texts"),
    Field("id", ":", requestId),
    Field("text", ":", data.text),
    Field("timestamp", ":", timestamp),
    Field("splitting", ":", "newlines"),
    Field("source_lang_user_selected", ":",
          normalizeLanguageCode(IF data.source_lang \in {"", Null} THEN "auto" ELSE data.source_lang)),
    Field("target_lang", ":",
          normalizeLanguageCode(IF data.target_lang \in {"", Null} THEN "en" ELSE data.target_lang))>>

\* requestString.replace('"method":"', with): the first place where the key
\* method, a colon and a string meet
replaceMethod(fields, with) ==
  LET hits == {i \in 1..Len(fields) :
                 fields[i].key = "method" /\ fields[i].sep = ":" /\ fields[i].value \in STRING}
  IN IF hits = {} THEN fields
     ELSE LET first == CHOOSE i \in hits : \A j \in hits : i <= j
          IN [fields EXCEPT ![first].sep = with]

\* the method field spaced whatever the id
methodSeparator_spaced(requestId) == " : "

\* the text that replaces the colon of the method field
methodSeparator(requestId) == IF methodSpaced(requestId) THEN " : " ELSE ": "

\* the string buildRequestBody returns for data it accepts
requestString(data, wall, randomComponent) ==
  LET requestId == requestIdOf(wall.lo, randomComponent)
      timestamp == getTimestamp(countLetterI(data.text), wall)
  IN replaceMethod(stringify(data, requestId, timestamp), methodSeparator(requestId))

NoBuild == [done |-> FALSE, ok |-> FALSE, data |-> NoParams, wall |-> Wall(0, 0),
            randomComponent |-> 0, body |-> <<>>]

\* texts by their number of letters i: none, few, the last count the
\* timestamp formula is applied to, the first it is not, and a full text
BuilderTexts ==
  {Text(Repeat(105, k), 0) : k \in {0, 1, 2, 12, 999, 1000, MAX_TEXT_LENGTH}}
  \cup {Text(<<65, 97>>, 0), Text(<<105, 97, 105>>, 2), Text(Repeat(105, MAX_TEXT_LENGTH), 1)}

BuilderWalls == {Wall(17304, lo) : lo \in {0, 19, 9999995, 10000000, 12345678, 99999999}}

\* Math.floor(Math.random() * 1000000)
BuilderRandoms == {0, 5, 999999}

\* buildRequestBody(data)
BuildBody ==
  /\ kind = "builder"
  /\ ~built.done
  /\ LET b == buildRequestBody(built.data, built.wall.lo, built.randomComponent, 0)
     IN built' = [built EXCEPT !.done = TRUE, !.ok = b.ok,
                               !.body = IF b.ok
                                        THEN requestString(built.data, built.wall,
                                                           built.randomComponent)
                                        ELSE <<>>]
  /\ UNCHANGED <<now, ticks, requests, PROXY_URLS, storeVars, runVars, script, clsVars,
                 breakerVars, bucketVars, lastCacheOp, loop>>

(***************************************************************************)
(* The isolate's event loop.  A task (the arrival of a request, the        *)
(* completion of a KV get or of a fetch, a timer) is taken only when the   *)
(* microtask queue is empty; promise reactions are microtasks.  Driven     *)
(* here: one delayRequest, one fetch with its abort timer, and the checks  *)
(* of one proxy's bucket, whose KV read is the only await of a check.      *)
(***************************************************************************)
LoopKey == proxyKey(BucketProxy)

\* a check suspended in await env.RATE_LIMIT_KV.get: its Date.now(), whether
\* the get has completed, and the value it completed with
Suspended(at, got, existing) == [at |-> at, got |-> got, existing |-> existing]

\* an allowed check: the way it took, its Date.now() and the token count it read
Allowed(path, at, level) == [path |-> path, at |-> at, level |-> level]

NoLoop == [micro |-> <<>>, delay |-> "none", start |-> 0, fetch |-> "none",
           timer |-> "none", due |-> 0, left |-> 0, pend |-> <<>>, log |-> <<>>]

\* the event loop takes its next task
taskTurn == loop.micro = <<>>

\* a task is queued: a completion or a timer waits for its callback
taskReady ==
  \/ loop.fetch = "ready"
  \/ loop.timer = "ready"
  \/ \E i \in 1..Len(loop.pend) : loop.pend[i].got

\* rateLimit.ts delayRequest: checkTime() resolves once the time is up and
\* otherwise queues itself as a microtask
checkTime(l, t, ms) ==
  IF t - l.start >= ms
  THEN [l EXCEPT !.delay = "resumed"]
  ELSE [l EXCEPT !.delay = "spinning", !.micro = Append(@, "checkTime")]

loopFrame == <<ticks, requests, PROXY_URLS, memoryCache, cacheKV, runVars, script, clsVars,
               breakerVars, bucketVars, lastCacheOp, built>>

\* a task of a failed attempt reaches await delayRequest(delay / 1000)
DelayStart ==
  /\ kind = "loop"
  /\ taskTurn
  /\ loop.delay = "none"
  /\ loop' = checkTime([loop EXCEPT !.start = now], now, backoffDelay(0))
  /\ UNCHANGED <<now, rateLimitCache, rateLimitKV, loopFrame>>

\* the microtask at the head of the queue runs
RunMicrotask ==
  /\ kind = "loop"
  /\ loop.micro # <<>>
  /\ loop' = checkTime([loop EXCEPT !.micro = Tail(@)], now, backoffDelay(0))
  /\ UNCHANGED <<now, rateLimitCache, rateLimitKV, loopFrame>>

\* a task of an attempt calls fetch and arms the abort timer
FetchStart ==
  /\ kind = "loop"
  /\ taskTurn
  /\ loop.fetch = "none"
  /\ loop' = [loop EXCEPT !.fetch = "pending", !.timer = "armed", !.due = now + REQUEST_TIMEOUT]
  /\ UNCHANGED <<now, rateLimitCache, rateLimitKV, loopFrame>>

\* outside the isolate: the upstream answers
FetchArrives ==
  /\ kind = "loop"
  /\ loop.fetch = "pending"
  /\ loop' = [loop EXCEPT !.fetch = "ready"]
  /\ UNCHANGED <<now, rateLimitCache, rateLimitKV, loopFrame>>

\* outside the isolate: RATE_LIMIT_KV answers the get of a suspended check
KvArrives(i) ==
  /\ kind = "loop"
  /\ i \in 1..Len(loop.pend)
  /\ ~loop.pend[i].got
  /\ loop' = [loop EXCEPT !.pend[i] = Suspended(@.at, TRUE, rateLimitKV[LoopKey])]
  /\ UNCHANGED <<now, rateLimitCache, rateLimitKV, loopFrame>>

\* the task of the fetch's completion: await fetch resumes, clearTimeout
FetchTask ==
  /\ kind = "loop"
  /\ taskTurn
  /\ loop.fetch = "ready"
  /\ loop' = [loop EXCEPT !.fetch = "done",
                          !.timer = IF @ \in {"armed", "ready"} THEN "cleared" ELSE @]
  /\ UNCHANGED <<now, rateLimitCache, rateLimitKV, loopFrame>>

\* the task of the abort timer: controller.abort()
TimerTask ==
  /\ kind = "loop"
  /\ taskTurn
  /\ loop.timer = "ready"
  /\ loop' = [loop EXCEPT !.timer = "fired",
                          !.fetch = IF @ \in {"pending", "ready"} THEN "aborted" ELSE @]
  /\ UNCHANGED <<now, rateLimitCache, rateLimitKV, loopFrame>>

\* checkProxyRateLimit called by a task: with a fresh cached bucket it runs to
\* its end, otherwise it is suspended in the KV get
CheckStart(writeOk) ==
  /\ kind = "loop"
  /\ taskTurn
  /\ loop.left > 0
  /\ LET cached == rateLimitCache[LoopKey]
         r == checkProxyRateLimit(BucketProxy, rateLimitCache, rateLimitKV, now, TRUE, writeOk)
     IN IF cached # NoBucket /\ now - cached.lastUpdate < RL_CACHE_TTL
        THEN /\ rateLimitCache' = r.cache
             /\ rateLimitKV' = r.kv
             /\ loop' = [loop EXCEPT !.left = @ - 1,
                                     !.log = IF r.allowed
                                             THEN Append(@, Allowed("memory", now,
                                                            r.cache[LoopKey].tokens + 1))
                                             ELSE @]
        ELSE /\ Len(loop.pend) < MaxSuspended
             /\ loop' = [loop EXCEPT !.left = @ - 1,
                                     !.pend = Append(@, Suspended(now, FALSE, NoBucket))]
             /\ UNCHANGED <<rateLimitCache, rateLimitKV>>
  /\ UNCHANGED <<now, loopFrame>>

\* the task of a KV get's completion: the check goes on from the value read,
\* with the Date.now() it took when it began
CheckResume(i, writeOk) ==
  /\ kind = "loop"
  /\ taskTurn
  /\ i \in 1..Len(loop.pend)
  /\ loop.pend[i].got
  /\ LET c == loop.pend[i]
         r == checkProxyRateLimit(BucketProxy,
                                  [rateLimitCache EXCEPT ![LoopKey] = NoBucket],
                                  [rateLimitKV EXCEPT ![LoopKey] = c.existing],
                                  c.at, TRUE, writeOk)
         rest == SubSeq(loop.pend, 1, i - 1) \o SubSeq(loop.pend, i + 1, Len(loop.pend))
     IN /\ rateLimitCache' = [rateLimitCache EXCEPT ![LoopKey] = r.cache[LoopKey]]
        /\ rateLimitKV' = IF writeOk
                          THEN [rateLimitKV EXCEPT ![LoopKey] = r.kv[LoopKey]]
                          ELSE rateLimitKV
        /\ loop' = [loop EXCEPT !.pend = rest,
                                !.log = IF r.allowed
                                        THEN Append(@, Allowed("kv", c.at, r.cache[LoopKey].tokens + 1))
                                        ELSE @]
  /\ UNCHANGED <<now, loopFrame>>

LoopTimeSteps == {DEFAULT_RETRY_initialDelay, RL_CACHE_TTL + REQUEST_TIMEOUT}

\* the wall clock moves on; an armed timer that is due is queued; the log of
\* the instant ends.  Among the MaxChecks checks every KV get is answered and
\* resumed within the millisecond it was issued in.
LoopTick(d) ==
  /\ kind = "loop"
  /\ ticks < MaxLoopTicks
  /\ loop.delay = "absent" => loop.pend = <<>>
  /\ ticks' = ticks + 1
  /\ now' = now + d
  /\ loop' = [loop EXCEPT !.log = <<>>,
                          !.timer = IF @ = "armed" /\ now + d >= loop.due THEN "ready" ELSE @]
  /\ UNCHANGED <<requests, PROXY_URLS, storeVars, runVars, script, clsVars, breakerVars,
                 bucketVars, lastCacheOp, built>>

(***************************************************************************)
(* Spec: requests served one after another by one process.                 *)
(***************************************************************************)
\* a bucket left empty in the durable store by an earlier process
Drained == [tokens |-> 0, lastRefill |-> 0, lastUpdate |-> 0]

\* the entry an earlier request for TextAa cached: the upstream had answered
\* "C" with id 4242 and detected language "en"
Cached == [data |-> "C", timestamp |-> 0, source_lang |-> "EN", target_lang |-> "ZH", id |-> 4242]
CachedKey == generateCacheKey(TextAa, "auto", "ZH")

Idle ==
  /\ now = 0
  /\ ticks = 0
  /\ requests = 0
  /\ rateLimitCache = [k \in RLKeys |-> NoBucket]
  /\ params = NoParams
  /\ cacheKey = NoKey
  /\ attempt = 0
  /\ lastError = Undefined
  /\ curErr = NoError
  /\ thrown = NoError
  /\ endpoint = ""
  /\ result = NoResult
  /\ opCalls = 0
  /\ delays = <<>>
  /\ selectCalls = 0
  /\ admitCalls = 0
  /\ tokensTaken = 0
  /\ transportCalls = 0
  /\ denials = 0
  /\ cacheFresh = NoEntry
  /\ cacheReadable = NoEntry
  /\ clientEmpty = FALSE
  /\ upstream = NoResp
  /\ circuitBreakers = [u \in BreakerKeys |-> NoBreaker]
  /\ inflight = [u \in BreakerKeys |-> 0]
  /\ execs = 0
  /\ lastEvent = NoEvent
  /\ streak = [u \in BreakerKeys |-> 0]
  /\ hoSucc = [u \in BreakerKeys |-> 0]
  /\ lastCheck = [k \in BucketKeys |-> NoCheck]
  /\ lastCacheOp = NoCacheOp

Init ==
  /\ Idle
  /\ built = NoBuild
  /\ loop = NoLoop
  /\ kvUp = TRUE
  /\ kind = "idle"
  /\ pc = "idle"
  /\ maxRetries = DEFAULT_RETRY_maxRetries
  /\ \E inMem \in BOOLEAN :
       memoryCache = [k \in CacheKeys |-> IF inMem /\ k = CachedKey THEN Cached ELSE NoEntry]
  /\ \E inKV \in BOOLEAN :
       cacheKV = [k \in CacheKeys |-> IF inKV /\ k = CachedKey THEN Cached ELSE NoEntry]
  /\ PROXY_URLS \in {SubSeq(ProxyList, 1, n) : n \in 0..MaxProxies}
  /\ \E drained \in BOOLEAN :
       rateLimitKV = [k \in RLKeys |-> IF drained THEN Drained ELSE NoBucket]
  /\ script = <<>>
  /\ clsErr = NoError
  /\ clsOut = "none"

Next ==
  \/ \E text \in HandlerTexts, src \in HandlerSources, tgt \in HandlerTargets :
       HandlerStart(text, src, tgt)
  \/ \E kvOk \in BOOLEAN : CacheLookup(kvOk)
  \/ \E text \in QueryTexts, src \in QuerySources, tgt \in QueryTargets :
       QueryStart(text, src, tgt)
  \/ RetryLoop
  \/ \E idx \in 0..Len(PROXY_URLS), readOk \in BOOLEAN, writeOk \in BOOLEAN :
       /\ (idx = 0) = (Len(PROXY_URLS) = 0)
       /\ OpAdmit(idx, readOk, writeOk)
  \/ \E wallMod \in WallMods, randomComponent \in RandomComponents :
       OpBuildSend(wallMod, randomComponent)
  \/ \E r \in Responses : OpResponse(r)
  \/ \E status \in {200, 503} : OpStall(status)
  \/ RetryCatch
  \/ RetryDelay
  \/ \E kvOk \in BOOLEAN : QueryDone(kvOk)
  \/ Finish
  \/ Scheduled
  \/ \E d \in TimeJumps : Tick(d)

Spec == Init /\ [][Next]_vars

(***************************************************************************)
(* SpecLive: calls of query, each continuation run once it is ready.       *)
(* The event loop runs every continuation that is ready, and a transport   *)
(* call is taken to settle: fetch answers, fails or is aborted by the      *)
(* deadline (OpResponse), or answers with a head whose body never ends     *)
(* (OpStall).                                                              *)
(***************************************************************************)
\* the steps of a call of query that need no answer from the network
QueryStep ==
  \/ RetryLoop
  \/ \E idx \in 0..Len(PROXY_URLS), readOk \in BOOLEAN, writeOk \in BOOLEAN :
       /\ (idx = 0) = (Len(PROXY_URLS) = 0)
       /\ OpAdmit(idx, readOk, writeOk)
  \/ \E wallMod \in WallMods, randomComponent \in RandomComponents :
       OpBuildSend(wallMod, randomComponent)
  \/ RetryCatch
  \/ RetryDelay
  \/ \E kvOk \in BOOLEAN : QueryDone(kvOk)

\* await fetch(endpoint, ...) settles
FetchSettles ==
  \/ \E r \in Responses : OpResponse(r)
  \/ \E status \in {200, 503} : OpStall(status)

NextLive ==
  \/ \E text \in QueryTexts, src \in QuerySources, tgt \in QueryTargets :
       QueryStart(text, src, tgt)
  \/ QueryStep
  \/ FetchSettles
  \/ Finish
  \/ \E d \in TimeJumps : Tick(d)

SpecLive == Init /\ [][NextLive]_vars /\ WF_vars(QueryStep) /\ WF_vars(FetchSettles)

(***************************************************************************)
(* SpecRetry: retryWithBackoff on a scripted operation.                    *)
(***************************************************************************)
Scripts == UNION {[1..n -> Outcomes] : n \in 0..MaxScript}

InitRetry ==
  /\ Idle
  /\ built = NoBuild
  /\ loop = NoLoop
  /\ kvUp = TRUE
  /\ memoryCache = [k \in CacheKeys |-> NoEntry]
  /\ cacheKV = [k \in CacheKeys |-> NoEntry]
  /\ kind = "abstract"
  /\ pc = "loop"
  /\ maxRetries \in (0 - 1)..MaxRetriesBound
  /\ script \in Scripts
  /\ PROXY_URLS = <<>>
  /\ rateLimitKV = [k \in RLKeys |-> NoBucket]
  /\ clsErr = NoError
  /\ clsOut = "none"

NextRetry == RetryLoop \/ AbstractOp \/ RetryCatch \/ RetryDelay

SpecRetry == InitRetry /\ [][NextRetry]_vars

(***************************************************************************)
(* SpecClassify: isRetryableError applied to one error.                    *)
(***************************************************************************)
ClassifyInputs ==
  {Err(n, f, st, c, 0) :
     n \in {"", "Error", "AbortError", "TypeError"}, f \in BOOLEAN,
     st \in {Absent, 0, 200, 400, 401, 404, 408, 413, 429, 500, 502, 503, 504},
     c \in {Absent, 0, 200, 408, 429, 500, 502, 503, 504, 1042912}}

InitClassify ==
  /\ Idle
  /\ built = NoBuild
  /\ loop = NoLoop
  /\ kvUp = TRUE
  /\ memoryCache = [k \in CacheKeys |-> NoEntry]
  /\ cacheKV = [k \in CacheKeys |-> NoEntry]
  /\ kind = "classify"
  /\ pc = "idle"
  /\ maxRetries = DEFAULT_RETRY_maxRetries
  /\ script = <<>>
  /\ PROXY_URLS = <<>>
  /\ rateLimitKV = [k \in RLKeys |-> NoBucket]
  /\ clsErr \in ClassifyInputs
  /\ clsOut = "none"

Classify ==
  /\ kind = "classify"
  /\ clsOut = "none"
  /\ clsOut' = IF isRetryableError(clsErr) THEN "retryable" ELSE "fatal"
  /\ UNCHANGED <<now, ticks, requests, PROXY_URLS, storeVars, kind, pc, params,
                 cacheKey, retryVars, endpoint, result, script, ghostVars, clsErr, auxVars>>

NextClassify == Classify

SpecClassify == InitClassify /\ [][NextClassify]_vars

(***************************************************************************)
(* SpecBreaker: execute calls on the registered breakers, their operations *)
(* settling in any order.                                                  *)
(***************************************************************************)
InitBreaker ==
  /\ Idle
  /\ built = NoBuild
  /\ loop = NoLoop
  /\ kvUp = TRUE
  /\ memoryCache = [k \in CacheKeys |-> NoEntry]
  /\ cacheKV = [k \in CacheKeys |-> NoEntry]
  /\ kind = "breaker"
  /\ pc = "idle"
  /\ maxRetries = DEFAULT_RETRY_maxRetries
  /\ script = <<>>
  /\ PROXY_URLS = <<>>
  /\ rateLimitKV = [k \in RLKeys |-> NoBucket]
  /\ clsErr = NoError
  /\ clsOut = "none"

NextBreaker ==
  \/ \E url \in BreakerUrls : BreakerExecute(url)
  \/ \E url \in BreakerUrls : BreakerSuccess(url)
  \/ \E url \in BreakerUrls : BreakerFailure(url)
  \/ \E d \in BreakerTimeSteps : BreakerTick(d)

SpecBreaker == InitBreaker /\ [][NextBreaker]_vars

(***************************************************************************)
(* SpecBucket: admission checks of one client and one proxy.  The durable  *)
(* store may hold a proxy bucket another process left empty, and may be    *)
(* unreachable for the whole run.                                          *)
(***************************************************************************)
InitBucket ==
  /\ Idle
  /\ built = NoBuild
  /\ loop = NoLoop
  /\ kvUp \in BOOLEAN
  /\ memoryCache = [k \in CacheKeys |-> NoEntry]
  /\ cacheKV = [k \in CacheKeys |-> NoEntry]
  /\ kind = "bucket"
  /\ pc = "idle"
  /\ maxRetries = DEFAULT_RETRY_maxRetries
  /\ script = <<>>
  /\ PROXY_URLS \in {<<>>, <<BucketProxy>>}
  /\ \E drained \in BOOLEAN :
       rateLimitKV = [k \in RLKeys |->
                        IF drained /\ k = proxyKey(BucketProxy) THEN Drained ELSE NoBucket]
  /\ clsErr = NoError
  /\ clsOut = "none"

NextBucket ==
  \/ \E ep \in BucketEndpoints, readOk \in KvAnswers, writeOk \in KvAnswers :
       CombinedCheck(ep, readOk, writeOk)
  \/ \E d \in BucketTimeSteps : BucketTick(d)

SpecBucket == InitBucket /\ [][NextBucket]_vars

(***************************************************************************)
(* SpecCache: a process with an empty memory tier; the durable tier holds, *)
(* per key, nothing, an entry written at time 0, or a value that is not    *)
(* JSON.                                                                   *)
(***************************************************************************)
InitCache ==
  /\ Idle
  /\ built = NoBuild
  /\ loop = NoLoop
  /\ kvUp = TRUE
  /\ memoryCache = [k \in CacheKeys |-> NoEntry]
  /\ cacheKV \in [CacheKeys -> {NoEntry, Cached, Malformed}]
  /\ \A k \in CacheKeys \ CacheSpecKeys : cacheKV[k] = NoEntry
  /\ kind = "cache"
  /\ pc = "idle"
  /\ maxRetries = DEFAULT_RETRY_maxRetries
  /\ script = <<>>
  /\ PROXY_URLS = <<>>
  /\ rateLimitKV = [k \in RLKeys |-> NoBucket]
  /\ clsErr = NoError
  /\ clsOut = "none"

NextCache ==
  \/ \E key \in CacheSpecKeys, kvOk \in BOOLEAN : CacheGet(key, kvOk)
  \/ \E key \in CacheSpecKeys, kvOk \in BOOLEAN : CacheSet(key, kvOk)
  \/ \E d \in CacheTimeSteps : CacheTick(d)

SpecCache == InitCache /\ [][NextCache]_vars

(***************************************************************************)
(* SpecBuilder: buildRequestBody applied to one text at one wall-clock     *)
(* value with one random component.                                        *)
(***************************************************************************)
InitBuilder ==
  /\ Idle
  /\ loop = NoLoop
  /\ kvUp = TRUE
  /\ built \in {[NoBuild EXCEPT !.data = [text |-> t, source_lang |-> "", target_lang |-> "zh"],
                                !.wall = w, !.randomComponent = r] :
                  t \in BuilderTexts, w \in BuilderWalls, r \in BuilderRandoms}
  /\ memoryCache = [k \in CacheKeys |-> NoEntry]
  /\ cacheKV = [k \in CacheKeys |-> NoEntry]
  /\ kind = "builder"
  /\ pc = "idle"
  /\ maxRetries = DEFAULT_RETRY_maxRetries
  /\ script = <<>>
  /\ PROXY_URLS = <<>>
  /\ rateLimitKV = [k \in RLKeys |-> NoBucket]
  /\ clsErr = NoError
  /\ clsOut = "none"

NextBuilder == BuildBody

SpecBuilder == InitBuilder /\ [][NextBuilder]_vars

(***************************************************************************)
(* SpecLoop: the tasks and microtasks of one isolate, which serves either  *)
(* a request that fails, waits and fetches next to one check, or           *)
(* MaxChecks checks of one proxy's bucket.                                 *)
(***************************************************************************)
InitLoop ==
  /\ Idle
  /\ built = NoBuild
  /\ loop \in {[NoLoop EXCEPT !.left = 1],
               [NoLoop EXCEPT !.left = MaxChecks, !.delay = "absent", !.fetch = "absent"]}
  /\ kvUp = TRUE
  /\ memoryCache = [k \in CacheKeys |-> NoEntry]
  /\ cacheKV = [k \in CacheKeys |-> NoEntry]
  /\ kind = "loop"
  /\ pc = "idle"
  /\ maxRetries = DEFAULT_RETRY_maxRetries
  /\ script = <<>>
  /\ PROXY_URLS = <<BucketProxy>>
  /\ \E n \in {0, 2} :
       rateLimitKV = [k \in RLKeys |->
                        IF k = LoopKey /\ n > 0
                        THEN [tokens |-> n, lastRefill |-> 0, lastUpdate |-> 0]
                        ELSE NoBucket]
  /\ clsErr = NoError
  /\ clsOut = "none"

NextLoop ==
  \/ DelayStart
  \/ RunMicrotask
  \/ FetchStart
  \/ FetchArrives
  \/ \E i \in 1..MaxSuspended : KvArrives(i)
  \/ FetchTask
  \/ TimerTask
  \/ \E writeOk \in BOOLEAN : CheckStart(writeOk)
  \/ \E i \in 1..MaxSuspended, writeOk \in BOOLEAN : CheckResume(i, writeOk)
  \/ \E d \in LoopTimeSteps : LoopTick(d)

SpecLoop == InitLoop /\ [][NextLoop]_vars

(***************************************************************************)
(* Properties of translate (Spec).                                         *)
(***************************************************************************)
\* the request has its response and has not yet dropped its local state
Answered == kind \in {"handler", "query"} /\ pc = "done"

\* the last attempt of the answered request got the success shape from the upstream
AnsweredSuccess == Answered /\ upstream.kind = "success"

C2_FailureEnvelope ==
  (Answered /\ thrown # NoError) =>
    /\ result.data = Null
    /\ isValidHttpStatusCode(result.code)
    /\ result.code # 200

\* C3 as stated: if either tier held an unexpired entry for the request's key,
\* the answer is 200 with the entry's data, and the request selected no proxy,
\* ran no admission check, took no token and made no transport call
C3_AsStated ==
  (kind = "handler" /\ cacheFresh # NoEntry) =>
    /\ selectCalls = 0
    /\ admitCalls = 0
    /\ tokensTaken = 0
    /\ transportCalls = 0
    /\ opCalls = 0
    /\ pc = "done"
    /\ result.code = 200
    /\ result.data = cacheFresh.data

\* C3, amended: if the local tier held an unexpired entry for the request's
\* key, or the durable tier held one and the read of the durable tier
\* succeeded, the answer is 200 with the entry's data, and the request
\* selected no proxy, ran no admission check, took no token and made no
\* transport call
C3_ReadableHit ==
  (kind = "handler" /\ cacheReadable # NoEntry) =>
    /\ selectCalls = 0
    /\ admitCalls = 0
    /\ tokensTaken = 0
    /\ transportCalls = 0
    /\ opCalls = 0
    /\ pc = "done"
    /\ result.code = 200
    /\ result.data = cacheReadable.data

\* a request was answered from the entry the durable tier held
C3_Witness ==
  /\ Answered
  /\ kind = "handler"
  /\ cacheReadable = Cached
  /\ cacheKV[cacheKey] = Cached
  /\ result.data = Cached.data
  /\ ticks = 0
  /\ requests = 1

\* C4 as stated: a request one of whose attempts met a client bucket with less
\* than one token is answered {code: 429, data: null} without a transport call
C4_ClientDenied ==
  (Answered /\ clientEmpty) =>
    /\ result.code = 429
    /\ result.data = Null
    /\ transportCalls = 0

\* C5: a request whose text is absent or empty is answered {code: 400, data:
\* null} by the step that starts it: the retry loop is not entered, no proxy is
\* selected, no admission check runs, no transport call is made, and neither
\* that step nor the sending of the response changes a bucket or a cache
C5_EmptyText ==
  [][/\ (pc = "idle" /\ pc' # "idle" /\ textLength(params'.text) = 0) =>
          /\ pc' = "done"
          /\ result'.code = 400
          /\ result'.data = Null
          /\ opCalls' = 0
          /\ attempt' = 0
          /\ delays' = <<>>
          /\ selectCalls' = 0
          /\ admitCalls' = 0
          /\ tokensTaken' = 0
          /\ transportCalls' = 0
          /\ UNCHANGED storeVars
     /\ (Answered /\ textLength(params.text) = 0) =>
          /\ pc' = "idle"
          /\ UNCHANGED storeVars]_vars

\* query called with an empty text was answered 400
C5_Witness ==
  /\ Answered
  /\ kind = "query"
  /\ textLength(params.text) = 0
  /\ result.code = 400
  /\ opCalls = 0

\* the request builder rejects the request's parameters whatever the time and
\* the random component of the request id
violatesBuilder ==
  /\ textLength(params.text) > 0
  /\ \A w \in WallMods, rc \in RandomComponents : ~buildRequestBody(params, w, rc, 0).ok

\* C6 as stated: a request the request builder rejects is answered with code
\* 400 after exactly one attempt and without a transport call
C6_BuilderValidation ==
  (Answered /\ violatesBuilder) =>
    /\ result.code = 400
    /\ opCalls = 1
    /\ transportCalls = 0

(***************************************************************************)
(* Properties of retryWithBackoff (SpecRetry).                             *)
(***************************************************************************)
\* retryWithBackoff has returned or thrown
Settled == kind = "abstract" /\ pc \in {"returned", "thrown"}

\* the first n outcomes of the script are retryable failures
failsRetryably(n) ==
  /\ n <= Len(script)
  /\ \A i \in 1..n : isRetryableError(scriptedError(script[i], i)) /\ script[i] # "ok"

\* C7 as stated: an operation that fails k times retryably and then succeeds,
\* 0 <= k <= maxRetries, is invoked exactly k+1 times and its result is returned
C7_EventualSuccess ==
  (/\ Settled
   /\ Len(script) <= maxRetries
   /\ failsRetryably(Len(script))) =>
    /\ pc = "returned"
    /\ opCalls = Len(script) + 1
    /\ result.id = Len(script) + 1

\* maxRetries + 1 for maxRetries >= 0, and 1 otherwise
attemptsDue == IF maxRetries <= 0 THEN 1 ELSE maxRetries + 1

\* C8 as stated: if every attempt fails retryably, the operation is invoked
\* exactly maxRetries+1 times (once for maxRetries <= 0) and the error of the
\* last attempt is thrown
C8_Exhaustion ==
  (/\ Settled
   /\ Len(script) >= attemptsDue
   /\ failsRetryably(attemptsDue)) =>
    /\ pc = "thrown"
    /\ opCalls = attemptsDue
    /\ thrown = scriptedError(script[attemptsDue], attemptsDue)

\* C9: once an attempt has failed with an error that isRetryableError rejects,
\* that error is what retryWithBackoff throws, the failed attempt stays the
\* last one, and the delays taken are those of the attempts before it; an
\* error of the first attempt leaves the operation invoked exactly once
C9_FatalStops ==
  (kind = "abstract" /\ lastError # Undefined /\ ~isRetryableError(lastError)) =>
    /\ pc = "thrown"
    /\ thrown = lastError
    /\ opCalls = lastError.seq
    /\ Len(delays) = lastError.seq - 1
    /\ attempt = lastError.seq - 1
    /\ (lastError.seq = 1 => opCalls = 1 /\ delays = <<>>)

\* a fatal error of the second attempt was thrown after one delay
C9_Witness ==
  /\ kind = "abstract"
  /\ pc = "thrown"
  /\ thrown.status = 400
  /\ thrown.seq = 2
  /\ opCalls = 2
  /\ Len(delays) = 1

(***************************************************************************)
(* Properties of isRetryableError (SpecClassify).                          *)
(***************************************************************************)
RetryableStatuses == {408, 429, 500, 502, 503, 504}
RetryableCodes == {429, 500, 502, 503, 504}

\* the error is a transport abort or a failed fetch
transportError(error) ==
  error.name = "AbortError" \/ (error.name = "TypeError" /\ error.fetchMsg)

\* C10: an abort is retryable; any other error with an HTTP status is
\* retryable exactly if the status is in {408, 429, 500, 502, 503, 504}; any
\* other error without a status property but with an upstream-protocol code is
\* retryable exactly if the code is in {429, 500, 502, 503, 504}
C10_Classifier ==
  (kind = "classify" /\ clsOut # "none") =>
    /\ clsErr.name = "AbortError" => clsOut = "retryable"
    /\ (~transportError(clsErr) /\ Truthy(clsErr.status)) =>
         (clsOut = "retryable" <=> clsErr.status \in RetryableStatuses)
    /\ (~transportError(clsErr) /\ clsErr.status = Absent /\ clsErr.code # Absent) =>
         (clsOut = "retryable" <=> clsErr.code \in RetryableCodes)

\* an error with status 408 and no code was classified as retryable
C10_Witness ==
  /\ kind = "classify"
  /\ clsOut = "retryable"
  /\ clsErr.name = "Error"
  /\ clsErr.status = 408
  /\ clsErr.code = Absent

\* C11 as stated: an error that carries neither a status nor a code (and is
\* no transport error) is classified as retryable
C11_NoStatusRetryable ==
  (/\ kind = "classify"
   /\ clsOut # "none"
   /\ clsErr.status = Absent
   /\ clsErr.code = Absent) => clsOut = "retryable"

(***************************************************************************)
(* Properties of the circuit breakers (SpecBreaker).                       *)
(***************************************************************************)
\* the last event was of kind k and met the breaker in state st
EventIn(k, st) == lastEvent.kind = k /\ lastEvent.before.state = st

\* C12: a CLOSED breaker has recorded fewer than FAILURE_THRESHOLD failures
\* since its last success, and failureCount is that number; a failure recorded
\* while CLOSED opens the breaker exactly if it is the FAILURE_THRESHOLD-th
\* since the last success; a success recorded while CLOSED leaves the breaker
\* CLOSED with failureCount 0
C12_OpensAtThreshold ==
  /\ \A u \in BreakerUrls :
       circuitBreakers[u].state = "CLOSED" =>
         /\ streak[u] < FAILURE_THRESHOLD
         /\ circuitBreakers[u].failureCount = streak[u]
  /\ EventIn("failure", "CLOSED") =>
       /\ lastEvent.after.failureCount = lastEvent.before.failureCount + 1
       /\ lastEvent.after.state \in {"CLOSED", "OPEN"}
       /\ lastEvent.after.state = "OPEN" <=> lastEvent.after.failureCount = FAILURE_THRESHOLD
  /\ EventIn("success", "CLOSED") =>
       /\ lastEvent.after.state = "CLOSED"
       /\ lastEvent.after.failureCount = 0

\* the FAILURE_THRESHOLD-th failure in a row opened a breaker, after more than
\* FAILURE_THRESHOLD execute calls
C12_Witness ==
  /\ EventIn("failure", "CLOSED")
  /\ lastEvent.after.state = "OPEN"
  /\ lastEvent.before.failureCount = FAILURE_THRESHOLD - 1
  /\ execs > FAILURE_THRESHOLD

\* now - lastFailureTime at the last execute call
eventAge == lastEvent.at - lastEvent.before.lastFailureTime

\* C13 as stated: execute on an OPEN breaker rejects exactly if now -
\* lastFailureTime < RECOVERY_TIMEOUT, and otherwise makes the breaker
\* HALF_OPEN with successCount 0 and invokes the operation
C13_AsStated ==
  (lastEvent.kind \in {"reject", "invoke"} /\ lastEvent.before.state = "OPEN") =>
    /\ lastEvent.kind = "reject" <=> eventAge < RECOVERY_TIMEOUT
    /\ lastEvent.kind = "invoke" =>
         lastEvent.after.state = "HALF_OPEN" /\ lastEvent.after.successCount = 0
    /\ lastEvent.kind = "reject" => lastEvent.after = lastEvent.before

\* C13, amended: execute on an OPEN breaker rejects exactly if now -
\* lastFailureTime <= RECOVERY_TIMEOUT (leaving the breaker as it is), and
\* once now - lastFailureTime > RECOVERY_TIMEOUT it makes the breaker
\* HALF_OPEN with successCount 0 and invokes the operation
C13_RejectsUntilAfterTimeout ==
  (lastEvent.kind \in {"reject", "invoke"} /\ lastEvent.before.state = "OPEN") =>
    /\ lastEvent.kind = "reject" <=> eventAge <= RECOVERY_TIMEOUT
    /\ lastEvent.kind = "invoke" =>
         lastEvent.after.state = "HALF_OPEN" /\ lastEvent.after.successCount = 0
    /\ lastEvent.kind = "reject" => lastEvent.after = lastEvent.before

\* an execute call exactly RECOVERY_TIMEOUT after the last failure was rejected
C13_Witness ==
  /\ EventIn("reject", "OPEN")
  /\ eventAge = RECOVERY_TIMEOUT

C15_BreakerWrapsTransport ==
  /\ (kind \in {"handler", "query"} /\ pc = "fetch") =>
       circuitBreakers[endpoint].state \in {"CLOSED", "HALF_OPEN"}
  /\ (kind \in {"handler", "query"} /\ upstream.kind \notin {"none", "success"}) =>
       /\ circuitBreakers[endpoint] # NoBreaker
       /\ circuitBreakers[endpoint].failureCount >= 1

(***************************************************************************)
(* Properties of the rate limiter (SpecBucket).                            *)
(***************************************************************************)
ProxyChecked == lastCheck[proxyKey(BucketProxy)]
ClientChecked == lastCheck[clientKey(clientIP)]

\* C16: of the checks of a proxy bucket made at one instant from a full bucket,
\* the first PROXY_MAX_TOKENS are allowed and the next one is denied; a check
\* made at least 1/PROXY_REFILL_RATE seconds after a denied one is allowed
C16_ProxyBucket ==
  /\ ProxyChecked.burst \in 1..PROXY_MAX_TOKENS => ProxyChecked.allowed
  /\ ProxyChecked.burst = PROXY_MAX_TOKENS + 1 => ~ProxyChecked.allowed
  /\ (ProxyChecked.prev = "denied" /\ ProxyChecked.elapsed * PROXY_REFILL_RATE >= 1000)
       => ProxyChecked.allowed

\* the check that followed PROXY_MAX_TOKENS allowed ones at the same instant
\* was denied and left the bucket empty
C16_Witness ==
  /\ ProxyChecked.burst = PROXY_MAX_TOKENS + 1
  /\ ~ProxyChecked.allowed
  /\ rateLimitCache[proxyKey(BucketProxy)].tokens = 0

\* the capacity the client bucket is due: 60 seconds of the configured
\* endpoints' rate, or the base rate without endpoints
clientCapacityDue ==
  IF Len(PROXY_URLS) > 0 THEN Len(PROXY_URLS) * PROXY_TOKENS_PER_SECOND * 60
  ELSE BASE_TOKENS_PER_MINUTE

\* C17 as stated: the k-th check of a new client at one instant is allowed and
\* leaves capacity - k tokens for k up to the capacity due, and is denied after
C17_ClientCapacity ==
  /\ (ClientChecked.burst >= 1 /\ ClientChecked.burst <= clientCapacityDue) =>
       /\ ClientChecked.allowed
       /\ rateLimitCache[clientKey(clientIP)].tokens = clientCapacityDue - ClientChecked.burst
  /\ ClientChecked.burst = clientCapacityDue + 1 => ~ClientChecked.allowed

maxTokensDue(k) == IF k = clientKey(clientIP) THEN clientCapacityDue ELSE PROXY_MAX_TOKENS

inRange(b, k) == b # NoBucket => (b.tokens # NaN /\ 0 <= b.tokens /\ b.tokens <= maxTokensDue(k))

\* C18 as stated: every bucket, in rateLimitCache and in RATE_LIMIT_KV, holds
\* a token count between 0 and the capacity of its dimension
C18_TokensInRange ==
  \A k \in BucketKeys : inRange(rateLimitCache[k], k) /\ inRange(rateLimitKV[k], k)

\* C19 as stated: while RATE_LIMIT_KV is unreachable every check is allowed
C19_AsStated ==
  ~kvUp => \A k \in BucketKeys : lastCheck[k].made => lastCheck[k].allowed

\* C19, amended: while RATE_LIMIT_KV is unreachable, a check of a bucket that
\* was not checked within the last RL_CACHE_TTL ms is allowed
C19_FailOpenWithoutMemory ==
  ~kvUp => \A k \in BucketKeys :
             (lastCheck[k].made /\ (lastCheck[k].elapsed = Absent
                                    \/ lastCheck[k].elapsed >= RL_CACHE_TTL))
               => lastCheck[k].allowed

\* a first check was allowed although the unreachable store holds an empty bucket
C19_Witness ==
  /\ ~kvUp
  /\ ProxyChecked.made
  /\ ProxyChecked.elapsed = Absent
  /\ ProxyChecked.allowed
  /\ rateLimitKV[proxyKey(BucketProxy)] = Drained

\* C20: in every state the checks reach, a combined check decides the same,
\* for the same reason, and leaves the same rateLimitCache whether its puts
\* arrive or fail
C20_WriteFailureIrrelevant ==
  kind = "bucket" =>
    \A ep \in BucketEndpoints, readOk \in BOOLEAN :
      LET arrives == checkCombinedRateLimit(clientIP, ep, rateLimitCache, rateLimitKV, now,
                                            readOk, TRUE)
          fails == checkCombinedRateLimit(clientIP, ep, rateLimitCache, rateLimitKV, now,
                                          readOk, FALSE)
      IN /\ arrives.allowed = fails.allowed
         /\ arrives.reason = fails.reason
         /\ arrives.cache = fails.cache

\* a check was denied while the store answers, and none of the puts for its
\* bucket has arrived
C20_Witness ==
  /\ kvUp
  /\ ProxyChecked.made
  /\ ~ProxyChecked.allowed
  /\ rateLimitCache[proxyKey(BucketProxy)] # NoBucket
  /\ rateLimitKV[proxyKey(BucketProxy)] = NoBucket

ProxyKeys == {proxyKey(u) : u \in ProxyPool}

TtlMs == 3600 * 1000

\* a tier's value that counts as absent at t: nothing, not JSON, or of age >= TTL
agedOut(e, t) == e = NoEntry \/ e = Malformed \/ t - e.timestamp >= TtlMs

\* C22: in every state the cache reaches, a get returns nothing but an entry
\* of one of the tiers that is younger than the TTL, and returns absent when
\* the memory tier's entry is stale or missing and the durable tier's value is
\* stale, missing, not JSON, or cannot be read
C22_NeverStale ==
  kind = "cache" =>
    \A key \in CacheSpecKeys, kvOk \in BOOLEAN :
      LET r == getCachedTranslation(key, memoryCache, cacheKV, now, kvOk)
      IN /\ r.entry # NoEntry =>
              /\ r.entry \in {memoryCache[key], cacheKV[key]}
              /\ ~agedOut(r.entry, now)
         /\ (agedOut(memoryCache[key], now) /\ (agedOut(cacheKV[key], now) \/ ~kvOk))
              => r.entry = NoEntry

\* a get that read the durable tier reported absent for the entry written at
\* time 0, exactly TTL ms later
C22_Witness ==
  /\ lastCacheOp.op = "getDurable"
  /\ lastCacheOp.kvOk
  /\ ~lastCacheOp.hit
  /\ cacheKV[lastCacheOp.key] = Cached
  /\ memoryCache[lastCacheOp.key] = NoEntry
  /\ now - Cached.timestamp = TtlMs

Translated == Answered /\ kind = "handler" /\ upstream.kind = "success" /\ result.code = 200

\* the handler's request is about to be answered by query's result
Returning == kind \in {"handler", "query"} /\ pc \in {"returned", "thrown"}

C26_TimeoutAborts ==
  /\ pc # "hung"
  /\ (kind \in {"handler", "query"} /\ pc = "caught" /\ upstream.kind = "timeout") =>
       /\ curErr.status = 408
       /\ isRetryableError(curErr)
  /\ (Answered /\ upstream.kind = "timeout") =>
       /\ result.code = 408
       /\ result.data = Null

(***************************************************************************)
(* Properties of the backoff delays (SpecRetry).                           *)
(***************************************************************************)
\* the maxDelay a caller asks for, ms
CallerMaxDelay == 100

\* C27 as stated: the delay taken after failed attempt number n is
\* min(initialDelay * backoffFactor^n, maxDelay), so the delays of a run never
\* decrease and none exceeds maxDelay
C27_DelaysCapped ==
  kind = "abstract" =>
    \A i \in 1..Len(delays) :
      /\ delays[i] = jsMin(DEFAULT_RETRY_initialDelay * Pow(DEFAULT_RETRY_backoffFactor, i - 1),
                           CallerMaxDelay)
      /\ delays[i] <= CallerMaxDelay
      /\ i > 1 => delays[i - 1] <= delays[i]

(***************************************************************************)
(* Properties of the request body (SpecBuilder).                           *)
(***************************************************************************)
Built == built.done /\ built.ok
fieldOf(body, key) == body[CHOOSE i \in 1..Len(body) : body[i].key = key]
builtId == requestIdOf(built.wall.lo, built.randomComponent)

\* C28: for every accepted text with k letters i and wall-clock value raw,
\* the timestamp of the payload is raw when k = 0 and raw - (raw mod m) + m
\* with m = k + 1 otherwise, a multiple of m, for every k a text of at most
\* MAX_TEXT_LENGTH characters can have.
C28_TimestampAligned ==
  Built =>
    LET k == countLetterI(built.data.text)
        m == k + 1
        timestamp == fieldOf(built.body, "timestamp").value
    IN IF k = 0 THEN timestamp = built.wall
       ELSE /\ timestamp = wallAdd(built.wall, m - wallRem(built.wall, m))
            /\ wallRem(timestamp, m) = 0

\* C29: every request id placed in a payload has 8 or 9 decimal digits.
C29_IdDigits ==
  Built => /\ fieldOf(built.body, "id").value >= 10000000
           /\ fieldOf(built.body, "id").value <= 999999999

\* C30: the method field is written with spaces on both sides of the colon
\* exactly when (id + 5) mod 29 = 0 or (id + 3) mod 13 = 0, and with a space
\* after the colon otherwise; two payloads with the same id have the same
\* method field, and every other field is as JSON.stringify wrote it.
C30_MethodSpacing ==
  Built =>
    LET plain == stringify(built.data, builtId, fieldOf(built.body, "timestamp").value)
        choice == fieldOf(built.body, "method").sep
    IN /\ choice = (IF (builtId + 5) % 29 = 0 \/ (builtId + 3) % 13 = 0 THEN " : " ELSE ": ")
       /\ Len(built.body) = Len(plain)
       /\ \A i \in 1..Len(plain) :
            /\ built.body[i].key = plain[i].key
            /\ built.body[i].value = plain[i].value
            /\ plain[i].key # "method" => built.body[i].sep = plain[i].sep
       /\ \A t \in {Text(<<65, 97>>, 0), Text(<<105, 97, 105>>, 2)}, w \in BuilderWalls,
             r \in BuilderRandoms :
            requestIdOf(w.lo, r) = builtId =>
              fieldOf(requestString([built.data EXCEPT !.text = t], w, r), "method").sep = choice

C30_Witness ==
  /\ Built
  /\ fieldOf(built.body, "method").sep = " : "
  /\ countLetterI(built.data.text) > 0
  /\ fieldOf(built.body, "text").value = built.data.text

\* C31: a lookup returns the breaker the registry already holds for the URL,
\* creating it CLOSED with zero counts when there is none, and leaves every
\* other URL's breaker alone; a lookup, success, failure or transition of one
\* URL's breaker changes no field of another URL's breaker, and a registered
\* breaker is never replaced or removed.
C31_RegistryIsolation ==
  /\ [](\A u \in BreakerUrls :
          LET got == getCircuitBreaker(circuitBreakers, u)
          IN /\ got[u] = (IF circuitBreakers[u] = NoBreaker THEN NewBreaker
                          ELSE circuitBreakers[u])
             /\ getCircuitBreaker(got, u) = got
             /\ \A v \in BreakerKeys \ {u} : got[v] = circuitBreakers[v])
  /\ [][\A u \in BreakerKeys :
          /\ lastEvent'.url # u => circuitBreakers'[u] = circuitBreakers[u]
          /\ circuitBreakers[u] # NoBreaker => circuitBreakers'[u] # NoBreaker
          /\ (lastEvent'.url = u /\ lastEvent' # lastEvent /\ circuitBreakers[u] # NoBreaker) =>
               lastEvent'.before = circuitBreakers[u]
          /\ (circuitBreakers[u] = NoBreaker /\ circuitBreakers'[u] # NoBreaker) =>
               lastEvent'.url = u /\ lastEvent'.before = NewBreaker]_vars

\* one URL's breaker is OPEN after its failures while the other URL's breaker,
\* looked up and used in between, is CLOSED with no failure counted
C31_Witness ==
  \E u \in BreakerUrls, v \in BreakerUrls :
    /\ u # v
    /\ circuitBreakers[u].state = "OPEN"
    /\ circuitBreakers[u].failureCount = FAILURE_THRESHOLD
    /\ circuitBreakers[v] = NewBreaker
    /\ lastEvent.url = v
    /\ lastEvent.kind = "success"

(***************************************************************************)
(* Properties of the results of translate (Spec).                          *)
(***************************************************************************)
isUpperString(s) == s # Null /\ s # "" /\ toUpperCase(s) = s

\* the shape of a result: nothing but code and a numeric id unless code is 200
StandardShape(r) ==
  IF r.code # 200
  THEN r.data = Null /\ r.source_lang = Null /\ r.target_lang = Null /\ r.id \in Nat
  ELSE isUpperString(r.source_lang) /\ isUpperString(r.target_lang)

KeySources == {"auto", "Auto", "zh", "Zh"}
KeyTargets == {"zh", "EN"}

\* C33: generateCacheKey gives a text and two tags the key it gives the same
\* text and the upper-cased tags, unless the source tag is the literal
\* "auto", which stays "auto" in the key; the key of every get and set is the
\* key of the lower-cased tags it was made from.
C33_KeyNormalizes ==
  /\ \A t \in {TextAa}, s \in KeySources, u \in KeyTargets :
       /\ s # "auto" =>
            generateCacheKey(t, s, u) = generateCacheKey(t, toUpperCase(s), toUpperCase(u))
       /\ generateCacheKey(t, "auto", u)[2] = "auto"
       /\ generateCacheKey(t, "auto", u) = generateCacheKey(t, "auto", toUpperCase(u))
  /\ lastCacheOp.op # "none" =>
       lastCacheOp.key = generateCacheKey(TextAa, toLowerCase(lastCacheOp.key[2]),
                                          toLowerCase(lastCacheOp.key[3]))

\* an entry set under the upper-case tags was read back under the key of the
\* lower-case tags
C33_Witness ==
  /\ lastCacheOp.op = "getLocal"
  /\ lastCacheOp.hit
  /\ lastCacheOp.key = generateCacheKey(TextAa, "zh", "zh")
  /\ memoryCache[generateCacheKey(TextAa, "ZH", "ZH")].timestamp > 0

(***************************************************************************)
(* Properties of the attempts of translate (Spec).                         *)
(***************************************************************************)
\* the attempt's admission check and what follows it, without the client's token
AttemptSteps ==
  /\ pc = "op" =>
       /\ pc' \in {"build", "caught"}
       /\ selectCalls' = selectCalls + 1
       /\ admitCalls' = admitCalls + 1
       /\ transportCalls' = transportCalls
  /\ (pc = "op" /\ pc' = "build" /\ endpoint' # API_URL) =>
       rateLimitCache'[proxyKey(endpoint')].tokens \in 0..(PROXY_MAX_TOKENS - 1)
  /\ (pc = "op" /\ pc' = "caught") => curErr'.code = 429 /\ denials' = denials + 1
  /\ transportCalls' > transportCalls =>
       /\ pc = "build"
       /\ transportCalls' = transportCalls + 1

\* the client bucket after an admitted attempt: a token count below the capacity
ClientTokenTaken ==
  (pc = "op" /\ pc' = "build") =>
    rateLimitCache'[clientKey(clientIP)].tokens \in
      0..(calculateDynamicRateLimits(Len(PROXY_URLS)).TOKENS_PER_MINUTE - 1)

\* C34 as stated: every attempt selects a proxy and runs a new admission check
\* before its transport call; an admitted attempt takes one token from the
\* client bucket and, when its endpoint is a proxy, one from that proxy's
\* bucket; a denied attempt makes no transport call.
C34_AttemptAdmission ==
  /\ [](kind \in {"handler", "query"} =>
          /\ admitCalls = selectCalls
          /\ transportCalls + denials <= admitCalls
          /\ (pc \in {"build", "fetch"} => admitCalls = opCalls))
  /\ [][AttemptSteps /\ ClientTokenTaken]_vars

\* what holds of the attempts: everything but the client's token
AttemptsAdmitted ==
  /\ [](kind \in {"handler", "query"} =>
          /\ admitCalls = selectCalls
          /\ transportCalls + denials <= admitCalls
          /\ (pc \in {"build", "fetch"} => admitCalls = opCalls))
  /\ [][AttemptSteps]_vars

(***************************************************************************)
(* Properties of the waits of the retry loop (SpecRetry).                  *)
(***************************************************************************)
\* C35 as stated: a backoff delay is taken only between two attempts; when
\* retryWithBackoff throws, it has waited after every failed attempt but the
\* last, and the step that throws does not follow a wait.
C35_NoDelayBeforeRethrow ==
  /\ [](kind = "abstract" => Len(delays) <= opCalls)
  /\ []((kind = "abstract" /\ pc = "thrown" /\ opCalls > 0) => Len(delays) = opCalls - 1)
  /\ [][(pc = "delay" /\ pc' = "loop") => loopContinues(attempt', maxRetries)]_vars

(***************************************************************************)
(* Properties of the event loop (SpecLoop).                                *)
(***************************************************************************)
\* C36 as stated: while a request waits in delayRequest, the completion of a
\* KV get or of a fetch and a due abort timer of other requests get their
\* turn, and the waiting request goes on once the time is up.
C36_DelayCooperative ==
  /\ (loop.delay = "spinning" /\ taskReady) => taskTurn
  /\ loop.delay = "spinning" => loop.micro = <<"checkTime">>

\* the allowed checks of this instant that went by the cached bucket
memoryAllowed == {i \in 1..Len(loop.log) : loop.log[i].path = "memory"}

\* the allowed checks i to j all began at the same instant
oneInstant(i, j) == \A k \in i..j : loop.log[k].at = loop.log[i].at

\* C37 as stated: of the checks of one proxy allowed with no time elapsed,
\* those that found a fresh cached bucket are at most as many as the tokens
\* it held, and two that read the same token count both went through the KV
\* read.
C37_AsStated ==
  /\ \A i \in memoryAllowed :
       (\A k \in memoryAllowed : i <= k) => Cardinality(memoryAllowed) <= loop.log[i].level
  /\ \A i \in 1..Len(loop.log), j \in 1..Len(loop.log) :
       (i < j /\ oneInstant(i, j) /\ loop.log[i].level = loop.log[j].level) =>
         loop.log[i].path = "kv" /\ loop.log[j].path = "kv"

\* C37, amended: a check that finds a fresh cached bucket reads and writes
\* it in one step, so it takes the token below the one the allowed check
\* before it took; two checks allowed with no time elapsed read the same
\* token count only if a check that went through the KV read was allowed
\* after the first of them, the second at the latest.
C37_MemoryPathAtomic ==
  /\ \A i \in 2..Len(loop.log) :
       (loop.log[i].path = "memory" /\ oneInstant(i - 1, i)) =>
         loop.log[i].level = loop.log[i - 1].level - 1
  /\ \A i \in 1..Len(loop.log), j \in 1..Len(loop.log) :
       (i < j /\ oneInstant(i, j) /\ loop.log[i].level = loop.log[j].level) =>
         \E k \in (i + 1)..j : loop.log[k].path = "kv"
  /\ \A i \in 1..Len(loop.log) : loop.log[i].level \in 1..PROXY_MAX_TOKENS

\* two checks by the cached bucket took the same token with no time elapsed:
\* a check suspended in its KV read since before the bucket was cached was
\* allowed between them
C37_Witness ==
  /\ Len(loop.log) = 4
  /\ oneInstant(1, 4)
  /\ loop.log[2].path = "memory"
  /\ loop.log[3].path = "kv"
  /\ loop.log[4].path = "memory"
  /\ loop.log[2].level = loop.log[4].level

(***************************************************************************)
(* Properties of the calls of query (SpecLive).                            *)
(***************************************************************************)
\* a call of query is under way / has returned its StandardResult
QueryRunning == kind = "query" /\ pc \notin {"idle", "done"}
QueryReturned == kind = "query" /\ pc = "done" /\ StandardShape(result)

\* C38: every call of translate terminates and returns one StandardResult,
\* given that each transport call returns, fails or is aborted by its
\* deadline; no exception escapes to the caller.
C38_TranslateTerminates == QueryRunning ~> QueryReturned

\* what holds: a call ends with a StandardResult unless an attempt hangs in
\* the body of a response whose head has arrived
TerminatesUnlessHung == QueryRunning ~> (QueryReturned \/ pc = "hung")

(***************************************************************************)
(* Properties of the breaker's counters (SpecBreaker).                     *)
(***************************************************************************)
\* C39: in every reachable state of a breaker, with execute calls in flight
\* together and ending in any order, CLOSED implies failureCount below the
\* failure threshold, OPEN and HALF_OPEN imply failureCount at or above it,
\* and successCount lies between 0 and the success threshold.
C39_BreakerCounters ==
  \A u \in BreakerKeys :
    LET b == circuitBreakers[u]
    IN b # NoBreaker =>
         /\ b.state \in {"CLOSED", "OPEN", "HALF_OPEN"}
         /\ b.state = "CLOSED" => b.failureCount < FAILURE_THRESHOLD
         /\ b.state \in {"OPEN", "HALF_OPEN"} => b.failureCount >= FAILURE_THRESHOLD
         /\ b.successCount \in 0..SUCCESS_THRESHOLD

\* a call that was in flight when the breaker opened fails at the open breaker
C39_Witness ==
  /\ lastEvent.kind = "failure"
  /\ lastEvent.before.state = "OPEN"
  /\ circuitBreakers[lastEvent.url].failureCount = FAILURE_THRESHOLD + 1
  /\ circuitBreakers[lastEvent.url].state = "OPEN"

(***************************************************************************)
(* Properties of the combined check's writes (SpecBucket).                 *)
(***************************************************************************)
\* the combined checks that can be made in the current state in which the
\* client dimension allows and the proxy dimension denies, each with the
\* outcome of its client check alone
ProxyDenials ==
  {c \in [ep : BucketEndpoints, readOk : KvAnswers, writeOk : KvAnswers] :
     /\ checkRateLimit(clientIP, cleanupCacheIfNeeded(rateLimitCache, now), rateLimitKV,
                       now, c.readOk, c.writeOk).allowed
     /\ ~checkCombinedRateLimit(clientIP, c.ep, rateLimitCache, rateLimitKV, now,
                                c.readOk, c.writeOk).allowed}

\* C40: when the client dimension allows and the proxy dimension then denies
\* in one combined check, the check is rejected with the proxy-limit reason
\* and the client bucket stays decremented by one: the token is not given back.
C40_ClientTokenNotReturned ==
  \A c \in ProxyDenials :
    LET r == checkCombinedRateLimit(clientIP, c.ep, rateLimitCache, rateLimitKV, now,
                                    c.readOk, c.writeOk)
    IN /\ r.reason = "Proxy rate limit exceeded"
       /\ r.cache[clientKey(clientIP)].tokens =
            clientTokensDue(rateLimitCache, rateLimitKV, now) - 1

\* what holds: the rejection carries the proxy-limit reason and leaves the
\* client bucket as the client check wrote it, in both tiers
ClientWriteKept ==
  \A c \in ProxyDenials :
    LET r == checkCombinedRateLimit(clientIP, c.ep, rateLimitCache, rateLimitKV, now,
                                    c.readOk, c.writeOk)
        client == checkRateLimit(clientIP, cleanupCacheIfNeeded(rateLimitCache, now),
                                 rateLimitKV, now, c.readOk, c.writeOk)
        ck == clientKey(clientIP)
    IN /\ r.reason = "Proxy rate limit exceeded"
       /\ r.taken = 1
       /\ r.cache[ck] = client.cache[ck]
       /\ r.kv[ck] = client.kv[ck]
       /\ r.cache[ck] # NoBucket
       /\ r.cache[ck].lastUpdate = now

\* a state in which such a rejection can happen
ProxyDenialDue == ProxyDenials # {}

====
